---- MODULE Spec2Model ----
(***************************************************************************)
(* Model of app/ai_utils.py: the heuristic document analysis core          *)
(* (numeric normaliser, quantity inferencer, classifier, line-item parser, *)
(* field extractor).  Every function of the module is pure; a call is      *)
(* modelled as one action that takes the input held in the state and       *)
(* stores the value the function returns (pc = "done") or the exception    *)
(* that leaves it (pc = "raised").  The HTTP endpoints of app/routers that  *)
(* call it are modelled with the object storage and the tables they write. *)
(*                                                                         *)
(* Text is a TLA+ string; the character at position i of s is              *)
(* SubSeq(s, i, i) (positions are 1-based here, 0-based in the source).    *)
(* A Python float is modelled by the decimal number it was read from:      *)
(* Float(m, x) stands for m * 10^x, normalised so that m carries no        *)
(* trailing zero; NaN, PosInf and NegInf are the special values.           *)
(***************************************************************************)
EXTENDS Integers, Sequences, FiniteSets, TLC

VARIABLES pc,      \* "start" before the call, "done" after it
          text,    \* the string argument of the call
          price,   \* _infer_qty_from_total: the argument price
          total,   \* _infer_qty_from_total: the argument total
          result,  \* the values returned so far: << >>, then <<value>>
          storage, \* the keys of the objects uploaded to the bucket, oldest first
          db,      \* the committed rows of the tables, one sequence per table
          http     \* the last request the API answered, with its response

vars == <<pc, text, price, total, result, storage, db, http>>

\* Python's None
None == [k |-> "None"]

\* the value the call returned
Ret == result[1]

\* the tables of models.py that the endpoints write, all empty
EmptyDb == [documents |-> << >>, csvfiles |-> << >>, csvrows |-> << >>, eventlogs |-> << >>]

\* no request has been answered
NoExchange == [k |-> "none"]

\* the API has served nothing: the state in which the functions are called directly
ServerIdle ==
    /\ storage = << >>
    /\ db = EmptyDb
    /\ http = NoExchange

(***************************************************************************)
(* Characters and strings                                                  *)
(***************************************************************************)
Ch(s, i) == SubSeq(s, i, i)

Digit == {"0", "1", "2", "3", "4", "5", "6", "7", "8", "9"}

UpperStr == "ABCDEFGHIJKLMNOPQRSTUVWXYZÁÉÍÓÚÑÜ"

LowerStr == "abcdefghijklmnopqrstuvwxyzáéíóúñü"

UpperSet == {Ch(UpperStr, i) : i \in 1..Len(UpperStr)}

LowerSet == {Ch(LowerStr, i) : i \in 1..Len(LowerStr)}

LowerMap == [c \in UpperSet |->
               Ch(LowerStr, CHOOSE i \in 1..Len(UpperStr) : Ch(UpperStr, i) = c)]

\* str.lower() on one character
LowerCh(c) == IF c \in UpperSet THEN LowerMap[c] ELSE c

UpperMap == [c \in LowerSet |->
               Ch(UpperStr, CHOOSE i \in 1..Len(LowerStr) : Ch(LowerStr, i) = c)]

\* str.upper() on one character
UpperCh(c) == IF c \in LowerSet THEN UpperMap[c] ELSE c

RECURSIVE Lower(_)
\* str.lower(), one half of the string after the other
Lower(s) ==
    IF s = "" THEN ""
    ELSE IF Len(s) = 1 THEN LowerCh(s)
    ELSE LET h == Len(s) \div 2
         IN  Lower(SubSeq(s, 1, h)) \o Lower(SubSeq(s, h + 1, Len(s)))

\* str.isspace() / the characters str.strip() removes / regex \s
Space == {" ", "\t", "\n", "\r", "\f"}

\* str.strip(chars): from the first to the last character outside cs
Strip(s, cs) ==
    LET n == Len(s)
        lead == Cardinality({i \in 1..n : \A j \in 1..i : Ch(s, j) \in cs})
        trail == Cardinality({i \in 1..n : \A j \in i..n : Ch(s, j) \in cs})
    IN  IF lead = n THEN "" ELSE SubSeq(s, lead + 1, n - trail)

RECURSIVE Repeat(_, _)
\* s * n of Python
Repeat(s, n) ==
    IF n <= 0 THEN ""
    ELSE LET h == Repeat(s, n \div 2)
         IN  h \o h \o (IF n % 2 = 1 THEN s ELSE "")

\* the substring s[i:j] of Python, i and j 0-based and clipped to the string
Slice(s, i, j) ==
    LET a == IF i > Len(s) THEN Len(s) ELSE i
        b == IF j > Len(s) THEN Len(s) ELSE j
    IN  IF b <= a THEN "" ELSE SubSeq(s, a + 1, b)

\* needle occurs in hay at 0-based offset i
OccursAt(hay, needle, i) ==
    /\ i >= 0
    /\ i + Len(needle) <= Len(hay)
    /\ SubSeq(hay, i + 1, i + Len(needle)) = needle

\* Python's `needle in hay`
Contains(hay, needle) == \E i \in 0..(Len(hay) - Len(needle)) : OccursAt(hay, needle, i)

\* str.find: the lowest 0-based offset of needle in hay, -1 when absent
Find(hay, needle) ==
    IF Contains(hay, needle)
    THEN CHOOSE i \in 0..(Len(hay) - Len(needle)) :
            /\ OccursAt(hay, needle, i)
            /\ \A j \in 0..(i - 1) : ~OccursAt(hay, needle, j)
    ELSE -1

RECURSIVE Replace(_, _, _)
\* str.replace(c, d) for a one-character c, one half of the string after the other
Replace(s, c, d) ==
    IF s = "" THEN ""
    ELSE IF Len(s) = 1 THEN (IF s = c THEN d ELSE s)
    ELSE LET h == Len(s) \div 2
         IN  Replace(SubSeq(s, 1, h), c, d) \o Replace(SubSeq(s, h + 1, Len(s)), c, d)

\* str.replace(c, "")
Remove(s, c) == Replace(s, c, "")

RECURSIVE Count(_, _)
\* str.count: the number of non-overlapping occurrences of needle in hay
Count(hay, needle) ==
    LET i == Find(hay, needle)
    IN  IF needle = "" \/ i = -1 THEN 0
        ELSE 1 + Count(SubSeq(hay, i + Len(needle) + 1, Len(hay)), needle)

(***************************************************************************)
(* Python floats                                                           *)
(***************************************************************************)
\* the outcome of a conversion that raises ValueError
ValueError == [k |-> "ValueError"]

Float(m, x) == [k |-> "float", m |-> m, x |-> x]

NaN == [k |-> "nan"]

PosInf == [k |-> "inf"]

NegInf == [k |-> "-inf"]

Zero == Float(0, 0)

RECURSIVE Norm(_, _)
\* m * 10^x without trailing zeros in m
Norm(m, x) ==
    IF m = 0 THEN Zero
    ELSE IF m % 10 = 0 THEN Norm(m \div 10, x + 1)
    ELSE Float(m, x)

\* a finite float
IsNumber(v) == v.k = "float"

RECURSIVE Pow10(_)
Pow10(n) == IF n <= 0 THEN 1 ELSE 10 * Pow10(n - 1)

Abs(n) == IF n < 0 THEN -n ELSE n

RECURSIVE NumDigits(_)
NumDigits(n) == IF Abs(n) < 10 THEN 1 ELSE 1 + NumDigits(Abs(n) \div 10)

DigitStr == "0123456789"

DigitVal(c) == (CHOOSE i \in 1..10 : Ch(DigitStr, i) = c) - 1

AllDigits(s) == \A i \in 1..Len(s) : Ch(s, i) \in Digit

RECURSIVE ToInt(_)
\* the value of a string of decimal digits ("" is 0)
ToInt(s) ==
    IF s = "" THEN 0
    ELSE 10 * ToInt(SubSeq(s, 1, Len(s) - 1)) + DigitVal(Ch(s, Len(s)))

\* the leading nine significant digits of m, zero-padded
Lead9(m) == Abs(m) * Pow10(9 - NumDigits(m))

\* The double nearest to the normalised n (at most nine digits), a its decimal
\* exponent: "inf" above the largest double 1.7976931348623157e308, zero below
\* half the smallest one, 2.4703282292062327e-324.
RoundNorm(n, a) ==
    IF n.m = 0 THEN Zero
    ELSE IF a > 308 \/ (a = 308 /\ Lead9(n.m) > 179769313)
         THEN (IF n.m < 0 THEN NegInf ELSE PosInf)
    ELSE IF a < -324 \/ (a = -324 /\ Lead9(n.m) <= 247032822) THEN Zero
    ELSE n

Exponent10(n) == n.x + NumDigits(n.m) - 1

\* the double nearest to m * 10^x (m of at most nine digits)
Round754(m, x) == RoundNorm(Norm(m, x), Exponent10(Norm(m, x)))

\* Underscores are accepted between two digits only.
UnderscoresOk(s) ==
    \A i \in 1..Len(s) :
        Ch(s, i) = "_" =>
            /\ i > 1 /\ Ch(s, i - 1) \in Digit
            /\ i < Len(s) /\ Ch(s, i + 1) \in Digit

\* the part of s before offset i, all of s when i is -1
Before(s, i) == IF i = -1 THEN s ELSE Slice(s, 0, i)

\* the part of s after offset i, nothing when i is -1
After(s, i) == IF i = -1 THEN "" ELSE Slice(s, i + 1, Len(s))

\* digits before and after the point, at least one in all
DigitsOk(ip, fp) == AllDigits(ip) /\ AllDigits(fp) /\ Len(ip) + Len(fp) >= 1

\* [digits][.[digits]] with at least one digit
MantissaOk(s) == DigitsOk(Before(s, Find(s, ".")), After(s, Find(s, ".")))

UnsignedOk(d) == d # "" /\ AllDigits(d)

\* [+-]digits with at least one digit
ExponentOk(s) ==
    UnsignedOk(IF s # "" /\ Head(s) \in {"+", "-"} THEN Tail(s) ELSE s)

\* the value of the exponent [+-]digits, 0 for ""
ExponentVal(es) ==
    IF es = "" THEN 0
    ELSE IF Head(es) = "-" THEN -ToInt(Tail(es))
    ELSE IF Head(es) = "+" THEN ToInt(Tail(es))
    ELSE ToInt(es)

\* the leading nine significant digits of a digit string without leading
\* zeros, zero-padded
Lead9Of(sig) == ToInt(Slice(sig, 0, 9)) * Pow10(9 - Len(Slice(sig, 0, 9)))

\* sig * 10^x for the significant digits sig.  A value above the largest
\* double is "inf" whatever the length of sig; any other sig has at most nine
\* digits here.
Significant(sig, x) ==
    IF sig = "" THEN Zero
    ELSE IF \/ Len(sig) - 1 + x > 308
            \/ (Len(sig) - 1 + x = 308 /\ Lead9Of(sig) > 179769313)
         THEN PosInf
    ELSE Round754(ToInt(sig), x)

LeadingZeros(digits) ==
    Cardinality({i \in 1..Len(digits) : \A j \in 1..i : Ch(digits, j) = "0"})

\* digits * 10^x
Scaled(digits, x) ==
    Significant(SubSeq(digits, LeadingZeros(digits) + 1, Len(digits)), x)

\* ip.fp * 10^ev
Decimal(ip, fp, ev) == Scaled(ip \o fp, ev - Len(fp))

\* ms * 10^ev for the mantissa [digits][.[digits]]
Mantissa(ms, ev) == Decimal(Before(ms, Find(ms, ".")), After(ms, Find(ms, ".")), ev)

\* the value of a well-formed unsigned decimal literal
Literal(s) == Mantissa(Before(s, Find(s, "e")), ExponentVal(After(s, Find(s, "e"))))

Negate(v) ==
    IF v = PosInf THEN NegInf
    ELSE IF v = NegInf THEN PosInf
    ELSE IF v = NaN THEN NaN
    ELSE Float(-v.m, v.x)

\* mantissa and optional exponent of u are well formed
WellFormed(u) ==
    /\ MantissaOk(Before(u, Find(u, "e")))
    /\ (Find(u, "e") # -1 => ExponentOk(After(u, Find(u, "e"))))

\* float() of a lower-cased string without sign: inf, infinity or nan, or a
\* decimal literal with an optional exponent; anything else raises ValueError
Unsigned(body) ==
    IF body \in {"inf", "infinity"} THEN PosInf
    ELSE IF body = "nan" THEN NaN
    ELSE IF UnderscoresOk(body) /\ WellFormed(Remove(body, "_"))
         THEN Literal(Remove(body, "_"))
    ELSE ValueError

HasSign(t) == t # "" /\ Head(t) \in {"+", "-"}

\* the value v under the sign of t
WithSign(t, v) ==
    IF v = ValueError THEN ValueError
    ELSE IF HasSign(t) /\ Head(t) = "-" THEN Negate(v)
    ELSE v

\* float() of a stripped, lower-cased string: an optional sign first
Signed(t) == WithSign(t, Unsigned(IF HasSign(t) THEN Tail(t) ELSE t))

\* float(s) of Python for a string s: surrounding whitespace is ignored and
\* case does not matter
PyFloat(s) == Signed(Lower(Strip(s, Space)))

(***************************************************************************)
(* _to_float                                                               *)
(***************************************************************************)
\* the slip that keeps "." in the string: "." and "," are both decimal points
_to_float_keeping_dots(str) ==
    LET s == Strip(str, Space)
        s1 == Remove(Remove(s, "€"), " ")
        s2 == Replace(s1, ",", ".")
        f == PyFloat(s2)
    IN  IF s = "" THEN Zero
        ELSE IF f = ValueError THEN Zero
        ELSE f

_to_float(str) ==
    LET s == Strip(str, Space)
        s1 == Remove(Remove(s, "€"), " ")
        s2 == Replace(Remove(s1, "."), ",", ".")
        f == PyFloat(s2)
    IN  IF s = "" THEN Zero
        ELSE IF f = ValueError THEN Zero
        ELSE f

(***************************************************************************)
(* _infer_qty_from_total                                                   *)
(***************************************************************************)
PyInt(n) == [k |-> "int", v |-> n]

\* the outcome of round() on an infinite float
OverflowError == [k |-> "OverflowError"]

\* an exception, as opposed to a returned value
IsError(v) == v.k \in {"ValueError", "OverflowError"}

\* the float of a whole number
FromInt(n) == Norm(n, 0)

Min(a, b) == IF a < b THEN a ELSE b

\* the common power of ten in which two floats are whole numbers
CommonExp(a, b) == Min(0, Min(a.x, b.x))

\* the float v as a whole number of units 10^s
Units(v, s) == v.m * Pow10(v.x - s)

\* int(round(t / p)) for p > 0: round() rounds a tie to the even neighbour
Rounded(t, p) ==
    LET q == t \div p
        r == t % p
    IN  IF 2 * r < p THEN q
        ELSE IF 2 * r > p THEN q + 1
        ELSE IF q % 2 = 0 THEN q ELSE q + 1

RECURSIVE Log2Floor(_, _)
\* the binary exponent e of t / p >= 1: 2^e <= t / p < 2^(e + 1)
Log2Floor(t, p) == IF t < 2 * p THEN 0 ELSE 1 + Log2Floor(t, 2 * p)

\* The double nearest to rounded + 1/20 or rounded - 1/20 lies nearer to
\* `rounded` than the real number does: the bits of 1/20 = 0.000011001100...b
\* that do not fit the 53-bit significand of the quotient round towards it.
\* With e the binary exponent of the quotient the dropped part is
\* frac(2^(50 - e) / 5), which is below one half when (50 - e) % 4 is 0 or 1.
EdgeRoundsInside(t, p) == (50 - Log2Floor(t, p)) % 4 \in {0, 1}

\* the slip abs(total - rounded * price) < 0.05: an absolute tolerance
ToleranceAbsolute(t, p, rounded) == t = rounded * p

\* abs(qty - rounded) < 0.05 in double arithmetic, qty the double t / p:
\* the comparison of the reals, except where t / p is exactly 0.05 away from
\* `rounded`, where the rounding of the quotient decides.
Tolerance(t, p, rounded) ==
    LET d == Abs(t - rounded * p)
    IN  IF 20 * d < p THEN TRUE
        ELSE IF 20 * d > p THEN FALSE
        ELSE t >= p /\ EdgeRoundsInside(t, p)

QtyRange(rounded) == 1 <= rounded /\ rounded <= 10000

\* price and total finite
InferFinite(price_, total_) ==
    LET s == CommonExp(price_, total_)
        p == Units(price_, s)
        t == Units(total_, s)
        rounded == Rounded(t, p)
    IN  IF p <= 0 THEN None
        ELSE IF Tolerance(t, p, rounded) /\ QtyRange(rounded) THEN PyInt(rounded)
        ELSE None

\* `price <= 0` is false for nan; total / price is nan when either is nan or
\* both are infinite, zero for a finite total over an infinite price, and
\* infinite for an infinite total over a finite price; round() raises
\* ValueError on nan and OverflowError on an infinity.
_infer_qty_from_total(price_, total_) ==
    IF IsNumber(price_) /\ IsNumber(total_) THEN InferFinite(price_, total_)
    ELSE IF price_ = NegInf \/ (IsNumber(price_) /\ price_.m <= 0) THEN None
    ELSE IF price_ = NaN \/ total_ = NaN THEN ValueError
    ELSE IF price_ = PosInf THEN (IF IsNumber(total_) THEN None ELSE ValueError)
    ELSE OverflowError

(***************************************************************************)
(* Regular expressions (module re).  A pattern is a sequence of nodes and  *)
(* is matched by backtracking, as re does: a greedy repetition tries the   *)
(* longest run first, a lazy one the shortest, an alternation its branches *)
(* from left to right; the first way to match the whole pattern wins.      *)
(* Offsets are 0-based; a match is [ok, start, end, caps], caps mapping a  *)
(* group to the <<start, end>> offsets of the text it captured.            *)
(***************************************************************************)
\* letters: str.isalpha() on the characters modelled ("º" is a letter)
Letter == UpperSet \cup LowerSet \cup {"º"}

\* regex \w
Word == Letter \cup Digit \cup {"_"}

\* a literal string
Lit(str) == [k |-> "lit", s |-> str]

\* between lo and hi characters of the set cs, greedy (hi = -1: no limit)
Rep(cs, lo, hi) == [k |-> "set", cs |-> cs, neg |-> FALSE, min |-> lo, max |-> hi, lazy |-> FALSE]

\* between lo and hi characters outside the set cs, greedy
RepNot(cs, lo, hi) == [k |-> "set", cs |-> cs, neg |-> TRUE, min |-> lo, max |-> hi, lazy |-> FALSE]

\* cs+? : one or more characters of the set cs, lazy
LazyPlus(cs) == [k |-> "set", cs |-> cs, neg |-> FALSE, min |-> 1, max |-> -1, lazy |-> TRUE]

One(cs) == Rep(cs, 1, 1)

Plus(cs) == Rep(cs, 1, -1)

Star(cs) == Rep(cs, 0, -1)

\* (?:a|b|...)
Alt(ps) == [k |-> "alt", alts |-> ps]

\* (?:p)?
Opt(p) == Alt(<<p, << >> >>)

\* (?:p)*
GroupStar(p) == [k |-> "star", sub |-> p]

\* ( and ) of the capturing group g
Open(g) == [k |-> "open", g |-> g]

Close(g) == [k |-> "close", g |-> g]

\* ^
Bol == [k |-> "bol"]

\* $
Eol == [k |-> "eol"]

\* \b
WordBoundary == [k |-> "wb"]

NoMatch == [ok |-> FALSE]

\* the character c is matched by the set node n (ic: re.IGNORECASE)
InSet(c, n, ic) ==
    (c \in n.cs \/ (ic /\ (LowerCh(c) \in n.cs \/ UpperCh(c) \in n.cs))) # n.neg

RECURSIVE RunWithin(_, _, _, _, _, _)
\* the length of the run from offset i on, at most `limit`, looked for in the
\* first w characters and then in four times as many
RunWithin(s, i, n, ic, limit, w) ==
    LET stops == {k \in 0..(Min(w, limit) - 1) : ~InSet(Ch(s, i + k + 1), n, ic)}
    IN  IF stops # {} THEN CHOOSE k \in stops : \A j \in stops : k <= j
        ELSE IF w >= limit THEN limit
        ELSE RunWithin(s, i, n, ic, limit, 4 * w)

\* how many characters from offset i on the set node n can take at most
RunLen(s, i, n, ic) ==
    LET left == Len(s) - i
        limit == IF n.max # -1 /\ n.max < left THEN n.max ELSE left
    IN  RunWithin(s, i, n, ic, limit, 1)

IsWordAt(s, i) == i >= 1 /\ i <= Len(s) /\ Ch(s, i) \in Word

RECURSIVE MatchAt(_, _, _, _, _)
RECURSIVE TryCounts(_, _, _, _, _, _, _, _)
RECURSIVE TryAlts(_, _, _, _, _, _)

\* the pattern `pat` matched at offset i of s, with the captures so far
MatchAt(pat, s, i, caps, ic) ==
    IF pat = << >> THEN [ok |-> TRUE, end |-> i, caps |-> caps]
    ELSE
    LET n == Head(pat)
        rest == Tail(pat)
    IN  CASE n.k = "lit" ->
                IF /\ i + Len(n.s) <= Len(s)
                   /\ IF ic THEN Lower(SubSeq(s, i + 1, i + Len(n.s))) = Lower(n.s)
                            ELSE SubSeq(s, i + 1, i + Len(n.s)) = n.s
                THEN MatchAt(rest, s, i + Len(n.s), caps, ic)
                ELSE NoMatch
          [] n.k = "set" ->
                LET hi == RunLen(s, i, n, ic)
                IN  IF hi < n.min THEN NoMatch
                    ELSE IF n.lazy THEN TryCounts(rest, s, i, n.min, hi, 1, caps, ic)
                    ELSE TryCounts(rest, s, i, hi, n.min, -1, caps, ic)
          [] n.k = "alt" -> TryAlts(n.alts, rest, s, i, caps, ic)
          [] n.k = "star" ->
                LET more == MatchAt(n.sub \o <<n>> \o rest, s, i, caps, ic)
                IN  IF more.ok THEN more ELSE MatchAt(rest, s, i, caps, ic)
          [] n.k = "open" -> MatchAt(rest, s, i, (n.g :> <<i, i>>) @@ caps, ic)
          [] n.k = "close" ->
                MatchAt(rest, s, i, (n.g :> <<caps[n.g][1], i>>) @@ caps, ic)
          [] n.k = "bol" -> IF i = 0 THEN MatchAt(rest, s, i, caps, ic) ELSE NoMatch
          [] n.k = "eol" ->
                IF i = Len(s) \/ (i = Len(s) - 1 /\ Ch(s, Len(s)) = "\n")
                THEN MatchAt(rest, s, i, caps, ic)
                ELSE NoMatch
          [] n.k = "wb" ->
                IF IsWordAt(s, i) # IsWordAt(s, i + 1)
                THEN MatchAt(rest, s, i, caps, ic)
                ELSE NoMatch

\* a repetition taking k characters, then k + step, ... up to `last`: the
\* first half of the counts is tried before the second
TryCounts(rest, s, i, k, last, step, caps, ic) ==
    IF k = last THEN MatchAt(rest, s, i + k, caps, ic)
    ELSE LET h == ((last - k) * step) \div 2
             r == TryCounts(rest, s, i, k, k + step * h, step, caps, ic)
         IN  IF r.ok THEN r
             ELSE TryCounts(rest, s, i, k + step * (h + 1), last, step, caps, ic)

\* the branches of an alternation, from left to right
TryAlts(alts, rest, s, i, caps, ic) ==
    IF alts = << >> THEN NoMatch
    ELSE LET r == MatchAt(Head(alts) \o rest, s, i, caps, ic)
         IN  IF r.ok THEN r ELSE TryAlts(Tail(alts), rest, s, i, caps, ic)

NoCaps == [g \in {} |-> <<0, 0>>]

\* the match object of the outcome r of MatchAt at offset i
MatchFrom(i, r) ==
    IF r.ok THEN [ok |-> TRUE, start |-> i, end |-> r.end, caps |-> r.caps]
    ELSE NoMatch

\* pattern.match(s): a match that starts at offset 0
ReMatch(pat, s, ic) == MatchFrom(0, MatchAt(pat, s, 0, NoCaps, ic))

Least(S) == CHOOSE a \in S : \A b \in S : a <= b

\* the match at the lowest of the offsets `starts` at which the pattern matches
FirstMatch(pat, s, starts, ic) ==
    IF starts = {} THEN NoMatch
    ELSE MatchFrom(Least(starts), MatchAt(pat, s, Least(starts), NoCaps, ic))

\* pattern.search(s, pos): the match with the lowest start offset >= pos
SearchFrom(pat, s, pos, ic) ==
    FirstMatch(pat, s, {i \in pos..Len(s) : MatchAt(pat, s, i, NoCaps, ic).ok}, ic)

\* re.search(pattern, s)
ReSearch(pat, s, ic) == SearchFrom(pat, s, 0, ic)

\* m.group(g)
Group(s, m, g) == Slice(s, m.caps[g][1], m.caps[g][2])

\* m.group(0)
Group0(s, m) == Slice(s, m.start, m.end)

RECURSIVE FindAllFrom(_, _, _, _)
\* the match r, then the matches after it
MatchThenRest(pat, s, r, ic) ==
    IF r.ok THEN <<Group0(s, r)>> \o FindAllFrom(pat, s, r.end, ic) ELSE << >>

\* re.findall(pattern, s) for a pattern that never matches the empty string:
\* the non-overlapping matches from left to right
FindAllFrom(pat, s, pos, ic) == MatchThenRest(pat, s, SearchFrom(pat, s, pos, ic), ic)

ReFindAll(pat, s, ic) == FindAllFrom(pat, s, 0, ic)

RECURSIVE SplitLines(_)
\* str.splitlines(): lines end at "\n", "\r", "\r\n" or "\f"; no final empty line
SplitLines(s) ==
    IF s = "" THEN << >>
    ELSE LET brk == {i \in 1..Len(s) : Ch(s, i) \in {"\n", "\r", "\f"}}
         IN  IF brk = {} THEN <<s>>
             ELSE LET b == CHOOSE i \in brk : \A j \in brk : i <= j
                      e == IF Ch(s, b) = "\r" /\ b < Len(s) /\ Ch(s, b + 1) = "\n"
                           THEN b + 1 ELSE b
                  IN  <<SubSeq(s, 1, b - 1)>> \o SplitLines(SubSeq(s, e + 1, Len(s)))

(***************************************************************************)
(* Line items                                                              *)
(***************************************************************************)
\* the number pattern \d+(?:[.,]\d{lo,hi})?
Number(lo, hi) == <<Plus(Digit), Opt(<<One({".", ","}), Rep(Digit, lo, hi)>>)>>

_item_line_regex ==
    <<Bol, Star(Space),
      Open("codigo"), Plus(Word), Close("codigo"), Plus(Space),
      Open("descripcion"), LazyPlus(Word \cup Space \cup {"-", "~", "."}),
      Close("descripcion"), Plus(Space),
      Open("cantidad"), Plus(Digit), Close("cantidad"), Plus(Space),
      Open("precio")>> \o Number(1, 2) \o <<Close("precio"), Plus(Space),
      Open("total")>> \o Number(1, 2) \o <<Close("total"),
      Star(Space), Eol>>

_product_line_regex ==
    <<Bol, Star(Space),
      Open("codigo"), Lit("Producto"), Close("codigo"), Star(Space),
      Open("descripcion"), Plus(Digit), Close("descripcion"), Star(Space),
      RepNot(Digit, 0, -1),
      Open("cantidad"), Plus(Digit), Close("cantidad"), Plus(Space),
      Open("precio")>> \o Number(0, -1) \o <<Close("precio"), Plus(Space),
      Open("total")>> \o Number(0, -1) \o <<Close("total"),
      Star(Space), Eol>>

_product_line_noqty_regex ==
    <<Bol, Star(Space),
      Open("codigo"), Lit("Producto"), Close("codigo"), Star(Space),
      Open("descripcion"), Plus(Digit), Close("descripcion"), Star(Space),
      RepNot(Digit, 1, -1),
      Open("precio")>> \o Number(0, -1) \o <<Close("precio"), Plus(Space),
      Open("total")>> \o Number(0, -1) \o <<Close("total"),
      Star(Space), Eol>>

Item(codigo, descripcion, cantidad, precio, total_) ==
    [codigo |-> codigo, descripcion |-> descripcion, cantidad |-> cantidad,
     precio_unitario |-> precio, total |-> total_]

\* the item of a match m that captured the quantity; cs is stripped from the
\* description
MatchedItem(line, m, cs) ==
    Item(Strip(Group(line, m, "codigo"), Space),
         Strip(Group(line, m, "descripcion"), cs),
         ToInt(Group(line, m, "cantidad")),
         _to_float(Group(line, m, "precio")),
         _to_float(Group(line, m, "total")))

\* the item of a match m without quantity, once the quantity is inferred
InferredItem(line, m, precio, total_, inferred) ==
    IF inferred = None THEN << >>
    ELSE <<Item(Strip(Group(line, m, "codigo"), Space),
                Strip(Group(line, m, "descripcion"), Space),
                inferred.v, precio, total_)>>

NoQtyItem(line, m, precio, total_) ==
    InferredItem(line, m, precio, total_, _infer_qty_from_total(precio, total_))

\* the slip that tries the generic pattern before the "Producto" pattern
CascadeGenericFirst(line, m1, m2, m3) ==
    IF m2.ok THEN <<MatchedItem(line, m2, {" ", "-", "~"})>>
    ELSE IF m1.ok THEN <<MatchedItem(line, m1, Space)>>
    ELSE IF m3.ok
    THEN NoQtyItem(line, m3, _to_float(Group(line, m3, "precio")),
                   _to_float(Group(line, m3, "total")))
    ELSE << >>

\* The three strategies in their order, m1, m2 and m3 the matches of the
\* "Producto" pattern, the generic pattern and the pattern without quantity:
\* the items the line contributes, none or one, when nothing is raised.
Cascade(line, m1, m2, m3) ==
    IF m1.ok THEN <<MatchedItem(line, m1, Space)>>
    ELSE IF m2.ok THEN <<MatchedItem(line, m2, {" ", "-", "~"})>>
    ELSE IF m3.ok
    THEN NoQtyItem(line, m3, _to_float(Group(line, m3, "precio")),
                   _to_float(Group(line, m3, "total")))
    ELSE << >>

\* an exception, None for a returned value
ErrorOf(v) == IF IsError(v) THEN v ELSE None

\* The exception the line raises, None if it raises none: only the inference
\* of a missing quantity can raise.
CascadeError(line, m1, m2, m3) ==
    IF ~m1.ok /\ ~m2.ok /\ m3.ok
    THEN ErrorOf(_infer_qty_from_total(_to_float(Group(line, m3, "precio")),
                                       _to_float(Group(line, m3, "total"))))
    ELSE None

LineError(line) ==
    CascadeError(line, ReMatch(_product_line_regex, line, TRUE),
                 ReMatch(_item_line_regex, line, FALSE),
                 ReMatch(_product_line_noqty_regex, line, TRUE))

\* the items one stripped, non-empty line contributes
LineItems(line) ==
    Cascade(line, ReMatch(_product_line_regex, line, TRUE),
            ReMatch(_item_line_regex, line, FALSE),
            ReMatch(_product_line_noqty_regex, line, TRUE))

\* blank lines are skipped
ItemsOfLine(line) == IF line = "" THEN << >> ELSE LineItems(line)

RECURSIVE ItemsOfLines(_)
ItemsOfLines(lines) ==
    IF lines = << >> THEN << >>
    ELSE ItemsOfLine(Strip(Head(lines), Space)) \o ItemsOfLines(Tail(lines))

ErrorOfLine(line) == IF line = "" THEN None ELSE LineError(line)

RECURSIVE ErrorOfLines(_)
\* the exception that ends the loop over the lines, None if none does
ErrorOfLines(lines) ==
    IF lines = << >> THEN None
    ELSE IF ErrorOfLine(Strip(Head(lines), Space)) # None
         THEN ErrorOfLine(Strip(Head(lines), Space))
    ELSE ErrorOfLines(Tail(lines))

\* the exception _parse_invoice_items(t) raises, None if it returns
ParseError(t) == ErrorOfLines(SplitLines(t))

\* the list _parse_invoice_items(t) returns when it raises nothing
_parse_invoice_items(t) == ItemsOfLines(SplitLines(t))

(***************************************************************************)
(* extract_invoice_data                                                    *)
(***************************************************************************)
\* Python's `a or b` on strings
Or(a, b) == IF a # "" THEN a ELSE b

\* The characters line.strip(...) removes in find_after_any.  The source set
\* also holds the bullet U+2022, which a TLA+ string cannot hold; no text
\* modelled here contains it.
LabelStrip == {" ", ":", ";", "-", "\t"}

RECURSIVE FirstValue(_)
\* the first line that is not empty once stripped
FirstValue(lines) ==
    IF lines = << >> THEN ""
    ELSE Or(Strip(Head(lines), LabelStrip), FirstValue(Tail(lines)))

\* the value after the label found at offset idx of the text, "" for idx = -1
ValueAt(t, label, idx, max_chars) ==
    IF idx = -1 THEN ""
    ELSE FirstValue(SplitLines(Slice(t, idx + Len(label), idx + Len(label) + max_chars)))

RECURSIVE find_after_any(_, _, _, _)
\* t the text, tl its lower-cased copy: the value after the first label of the
\* list that has one
find_after_any(t, tl, labels, max_chars) ==
    IF labels = << >> THEN ""
    ELSE Or(ValueAt(t, Head(labels), Find(tl, Head(labels)), max_chars),
            find_after_any(t, tl, Tail(labels), max_chars))

ClientLabels == <<"cliente", "client">>

LegalNameLabels == <<"razón social", "razon social">>

VendorLabels == <<"emisor", "proveedor", "vendedor">>

\* the slip that asks for the legal name first
ClienteLegalNameFirst(t, tl) ==
    Or(find_after_any(t, tl, LegalNameLabels, 100),
       find_after_any(t, tl, ClientLabels, 100))

\* cliente after the label search
ClienteByLabel(t, tl) ==
    Or(find_after_any(t, tl, ClientLabels, 100),
       find_after_any(t, tl, LegalNameLabels, 100))

\* proveedor after the label search
ProveedorByLabel(t, tl) ==
    Or(find_after_any(t, tl, VendorLabels, 100),
       find_after_any(t, tl, LegalNameLabels, 100))

AsciiUpper == {Ch(UpperStr, i) : i \in 1..26}

AsciiLower == {Ch(LowerStr, i) : i \in 1..26}

\* [A-ZÁÉÍÓÚÑ]
Capital == AsciiUpper \cup {"Á", "É", "Í", "Ó", "Ú", "Ñ"}

\* [A-ZÁÉÍÓÚÑa-záéíóúñü]
NameLetter == Capital \cup AsciiLower \cup {"á", "é", "í", "ó", "ú", "ñ", "ü"}

\* (?P<cli>[A-ZÁÉÍÓÚÑ][^ \n]+(?:\s+[A-ZÁÉÍÓÚÑa-záéíóúñü]+)*)\s+(?P<prov>Empresa\s+de[^\n]+)
EmpresaRegex ==
    <<Open("cli"), One(Capital), RepNot({" ", "\n"}, 1, -1),
      GroupStar(<<Plus(Space), Plus(NameLetter)>>), Close("cli"),
      Plus(Space),
      Open("prov"), Lit("Empresa"), Plus(Space), Lit("de"), RepNot({"\n"}, 1, -1),
      Close("prov")>>

\* the match of the pattern in a line that holds "empresa de"
EmpresaOfLine(raw_line) ==
    IF Contains(Lower(raw_line), "empresa de")
    THEN ReSearch(EmpresaRegex, raw_line, TRUE)
    ELSE NoMatch

\* the slip that takes the whole match, m.group(0), for the vendor
EmpresaOrWholeMatch(raw_line, m, rest) ==
    IF m.ok THEN [ok |-> TRUE, cli |-> Strip(Group(raw_line, m, "cli"), Space),
                  prov |-> Strip(Group0(raw_line, m), Space)]
    ELSE rest

\* the names of the match m in raw_line if there is one, else `rest`
EmpresaOr(raw_line, m, rest) ==
    IF m.ok THEN [ok |-> TRUE, cli |-> Strip(Group(raw_line, m, "cli"), Space),
                  prov |-> Strip(Group(raw_line, m, "prov"), Space)]
    ELSE rest

RECURSIVE EmpresaMatch(_)
\* the first line holding "empresa de" that the pattern matches: its names
EmpresaMatch(lines) ==
    IF lines = << >> THEN NoMatch
    ELSE EmpresaOr(Head(lines), EmpresaOfLine(Head(lines)), EmpresaMatch(Tail(lines)))

\* [^\S\r\n]
HSpace == Space \ {"\r", "\n"}

\* [A-Z0-9\-/\.]
NumberToken == AsciiUpper \cup Digit \cup {"-", "/", "."}

\* [^\S\r\n]*[:#\-]?\s*([A-Z0-9\-/\.]+)
NumberTail ==
    <<Star(HSpace), Rep({":", "#", "-"}, 0, 1), Star(Space),
      Open("1"), Plus(NumberToken), Close("1")>>

\* (?:n[uú]mero\s+de\s+factura|numero\s+de\s+factura)
NumeroRegex ==
    <<Alt(<< <<Lit("n"), One({"u", "ú"}), Lit("mero"), Plus(Space), Lit("de"),
              Plus(Space), Lit("factura")>>,
             <<Lit("numero"), Plus(Space), Lit("de"), Plus(Space), Lit("factura")>> >>)>>
    \o NumberTail

\* (?:n[°ºo]\s*factura|nro\.?\s*factura|factura\s*n[°ºo]?)
NumeroShortRegex ==
    <<Alt(<< <<Lit("n"), One({"°", "º", "o"}), Star(Space), Lit("factura")>>,
             <<Lit("nro"), Rep({"."}, 0, 1), Star(Space), Lit("factura")>>,
             <<Lit("factura"), Star(Space), Lit("n"), Rep({"°", "º", "o"}, 0, 1)>> >>)>>
    \o NumberTail

NumeroLabels == <<"n° factura", "no. factura", "nro factura", "n° comprobante">>

\* m.group(g).strip() for a match, "" for none
GroupOrEmpty(t, m, g) == IF m.ok THEN Strip(Group(t, m, g), Space) ELSE ""

\* the slip that tries the short labels before "numero de factura"
NumeroFacturaShortFirst(t, tl) ==
    Or(GroupOrEmpty(t, ReSearch(NumeroShortRegex, t, TRUE), "1"),
       Or(GroupOrEmpty(t, ReSearch(NumeroRegex, t, TRUE), "1"),
          find_after_any(t, tl, NumeroLabels, 40)))

NumeroFactura(t, tl) ==
    Or(GroupOrEmpty(t, ReSearch(NumeroRegex, t, TRUE), "1"),
       Or(GroupOrEmpty(t, ReSearch(NumeroShortRegex, t, TRUE), "1"),
          find_after_any(t, tl, NumeroLabels, 40)))

\* \d{1,2}[/-]\d{1,2}[/-]\d{2,4}
DateShape ==
    <<Rep(Digit, 1, 2), One({"/", "-"}), Rep(Digit, 1, 2), One({"/", "-"}),
      Rep(Digit, 2, 4)>>

\* (fecha\s+(?:emisi[oó]n|factura|comprobante)[^\d]{0,15})(\d{1,2}[/-]\d{1,2}[/-]\d{2,4})
FechaRegex ==
    <<Open("1"), Lit("fecha"), Plus(Space),
      Alt(<< <<Lit("emisi"), One({"o", "ó"}), Lit("n")>>,
             <<Lit("factura")>>,
             <<Lit("comprobante")>> >>),
      RepNot(Digit, 0, 15), Close("1"), Open("2")>> \o DateShape \o <<Close("2")>>

\* \b(\d{1,2}[/-]\d{1,2}[/-]\d{2,4})\b
BareDateRegex == <<WordBoundary, Open("1")>> \o DateShape \o <<Close("1"), WordBoundary>>

\* the slip that asks for the bare date first
FechaBareFirst(t, m, b) ==
    IF b.ok THEN Strip(Group(t, b, "1"), Space)
    ELSE IF m.ok THEN Strip(Group(t, m, "2"), Space)
    ELSE ""

\* m the match of the labelled date, b that of the bare date
FechaOf(t, m, b) ==
    IF m.ok THEN Strip(Group(t, m, "2"), Space)
    ELSE IF b.ok THEN Strip(Group(t, b, "1"), Space)
    ELSE ""

Fecha(t) ==
    FechaOf(t, ReSearch(FechaRegex, t, TRUE), ReSearch(BareDateRegex, t, FALSE))

\* (\d[\d\.,]*)
NumericRegex == <<One(Digit), Star(Digit \cup {".", ","})>>

Last(seq) == seq[Len(seq)]

\* the slip that stops at the first line mentioning "total" that has a number
TotalOfFirstLine(lines, total_) ==
    LET hits == {i \in 1..Len(lines) :
                    /\ Contains(Lower(lines[i]), "total")
                    /\ ReFindAll(NumericRegex, lines[i], FALSE) # << >>}
    IN  IF hits = {} THEN total_
        ELSE Last(ReFindAll(NumericRegex,
                            lines[CHOOSE i \in hits : \A j \in hits : i <= j], FALSE))

\* the numbers of a line that mentions "total", none for another line
NumbersOfTotalLine(line, line_lower) ==
    IF Contains(line_lower, "importe total") \/ Contains(line_lower, "total")
    THEN ReFindAll(NumericRegex, line, FALSE)
    ELSE << >>

\* nums[-1].strip() `if nums`, else the value so far
LastOr(nums, total_) == IF nums # << >> THEN Strip(Last(nums), Space) ELSE total_

RECURSIVE TotalOfLines(_, _)
\* the loop over the lines: total_ is the value found so far
TotalOfLines(lines, total_) ==
    IF lines = << >> THEN total_
    ELSE TotalOfLines(Tail(lines),
                      LastOr(NumbersOfTotalLine(Head(lines), Lower(Head(lines))), total_))

\* the slip that falls back on the first number of the text, nums[0]
TotalOrFirstNumber(t) ==
    Or(TotalOfLines(SplitLines(t), ""),
       IF ReFindAll(NumericRegex, t, FALSE) # << >>
       THEN Strip(Head(ReFindAll(NumericRegex, t, FALSE)), Space) ELSE "")

Total(t) ==
    Or(TotalOfLines(SplitLines(t), ""), LastOr(ReFindAll(NumericRegex, t, FALSE), ""))

\* the heuristic for "... Empresa de ...": the names of the first line the
\* pattern matches, when cliente or proveedor is still empty
EmpresaHeuristic(t, tl, cliente, proveedor) ==
    IF (cliente = "" \/ proveedor = "") /\ Contains(tl, "empresa de")
    THEN EmpresaMatch(SplitLines(t))
    ELSE NoMatch

\* the slip that lets the heuristic replace the values of the label search
InvoiceDataOverwritten(t, tl, cliente, proveedor, m) ==
    [cliente |-> Or(IF m.ok THEN Or(m.cli, cliente) ELSE cliente, ""),
     proveedor |-> Or(IF m.ok THEN Or(m.prov, proveedor) ELSE proveedor, ""),
     numero_factura |-> Or(NumeroFactura(t, tl), ""),
     fecha |-> Or(Fecha(t), ""),
     total |-> Or(Total(t), ""),
     items |-> _parse_invoice_items(t)]

\* the returned dict: cliente and proveedor from the label search, m the
\* outcome of the heuristic
InvoiceData(t, tl, cliente, proveedor, m) ==
    [cliente |-> Or(IF m.ok THEN Or(cliente, m.cli) ELSE cliente, ""),
     proveedor |-> Or(IF m.ok THEN Or(proveedor, m.prov) ELSE proveedor, ""),
     numero_factura |-> Or(NumeroFactura(t, tl), ""),
     fecha |-> Or(Fecha(t), ""),
     total |-> Or(Total(t), ""),
     items |-> _parse_invoice_items(t)]

\* the text, its lower-cased copy, and the values of the label search
ExtractLabelled(t, tl, cliente, proveedor) ==
    InvoiceData(t, tl, cliente, proveedor, EmpresaHeuristic(t, tl, cliente, proveedor))

extract_invoice_data(t) ==
    ExtractLabelled(t, Lower(t), ClienteByLabel(t, Lower(t)), ProveedorByLabel(t, Lower(t)))

(***************************************************************************)
(* classify_document                                                       *)
(***************************************************************************)
invoice_keywords ==
    << "factura", "factura proforma", "invoice", "subtotal", "iva", "rfc",
       "cuit", "total a pagar", "número de factura", "numero de factura",
       "no. factura" >>

RECURSIVE ScoreByCount(_, _)
\* the slip sum(text_lower.count(kw) for kw in kws): every occurrence counts
ScoreByCount(kws, text_lower) ==
    IF kws = << >> THEN 0
    ELSE Count(text_lower, Head(kws)) + ScoreByCount(Tail(kws), text_lower)

RECURSIVE Score(_, _)
\* sum(1 for kw in kws if kw in text_lower)
Score(kws, text_lower) ==
    IF kws = << >> THEN 0
    ELSE (IF Contains(text_lower, Head(kws)) THEN 1 ELSE 0) + Score(Tail(kws), text_lower)

classify_document(t) ==
    LET text_lower == Lower(t)
        score == Score(invoice_keywords, text_lower)
    IN  IF score >= 2 THEN "factura" ELSE "informacion"

(***************************************************************************)
(* simple_sentiment, summarize, analyze_document                           *)
(***************************************************************************)
positive_words == << "bueno", "excelente", "positivo", "satisfactorio", "feliz" >>

negative_words == << "malo", "negativo", "problema", "queja", "insatisfecho" >>

RECURSIVE Occurrences(_, _)
\* sum(tl.count(w) for w in words)
Occurrences(words, tl) ==
    IF words = << >> THEN 0
    ELSE Count(tl, Head(words)) + Occurrences(Tail(words), tl)

\* the slip that resolves a tie to "positivo"
SentimentTiePositive(pos_score, neg_score) ==
    IF pos_score >= neg_score THEN "positivo"
    ELSE IF neg_score > pos_score THEN "negativo"
    ELSE "neutral"

Sentiment(pos_score, neg_score) ==
    IF pos_score > neg_score THEN "positivo"
    ELSE IF neg_score > pos_score THEN "negativo"
    ELSE "neutral"

simple_sentiment(t) ==
    Sentiment(Occurrences(positive_words, Lower(t)), Occurrences(negative_words, Lower(t)))

RECURSIVE SplitAt(_, _, _)
\* str.split(sep), i the offset of the first sep in s
SplitAt(s, sep, i) ==
    IF i = -1 THEN <<s>>
    ELSE <<Slice(s, 0, i)>>
         \o SplitAt(Slice(s, i + Len(sep), Len(s)), sep,
                    Find(Slice(s, i + Len(sep), Len(s)), sep))

Split(s, sep) == SplitAt(s, sep, Find(s, sep))

RECURSIVE Sentences(_)
\* [s.strip() for s in parts if s.strip()]
Sentences(parts) ==
    IF parts = << >> THEN << >>
    ELSE (IF Strip(Head(parts), Space) = "" THEN << >> ELSE <<Strip(Head(parts), Space)>>)
         \o Sentences(Tail(parts))

RECURSIVE Join(_, _)
\* sep.join(parts)
Join(sep, parts) ==
    IF parts = << >> THEN ""
    ELSE IF Len(parts) = 1 THEN parts[1]
    ELSE parts[1] \o sep \o Join(sep, Tail(parts))

\* seq[:n]
Take(seq, n) == SubSeq(seq, 1, Min(n, Len(seq)))

summarize(t, max_sentences) == Join(". ", Take(Sentences(Split(t, ".")), max_sentences))

\* text[:200].replace("\n", " ")
Description(t) == Replace(Slice(t, 0, 200), "\n", " ")

InvoiceAnalysis(doc_type, raw_text_length, invoice_data) ==
    [doc_type |-> doc_type, kind |-> "factura", raw_text_length |-> raw_text_length,
     cliente |-> invoice_data.cliente, proveedor |-> invoice_data.proveedor,
     numero_factura |-> invoice_data.numero_factura, fecha |-> invoice_data.fecha,
     total |-> invoice_data.total, items |-> invoice_data.items]

InformationAnalysis(doc_type, raw_text_length, description, summary, sentiment) ==
    [doc_type |-> doc_type, kind |-> "informacion", raw_text_length |-> raw_text_length,
     description |-> description, summary |-> summary, sentiment |-> sentiment]

Analysis(t, doc_type) ==
    IF doc_type = "factura"
    THEN InvoiceAnalysis(doc_type, Len(t), extract_invoice_data(t))
    ELSE InformationAnalysis(doc_type, Len(t), Description(t), summarize(t, 3),
                             simple_sentiment(t))

analyze_document(t) == Analysis(t, classify_document(t))

\* what analyze_document raises: the extractor's exception, on an invoice
AnalyzeError(t) == IF classify_document(t) = "factura" THEN ParseError(t) ELSE None

(***************************************************************************)
(* Inputs of the classifier: every concatenation of at most MaxWords of    *)
(* the fragments below.                                                    *)
(***************************************************************************)
MaxWords == 3

ClassifyFragments ==
    { "factura", "Fact", "ura", " proforma", "IVA", "iva", "i", "va",
      "subtotal", " a pagar", "RFC", "No. ", "Número de ", "x", " " }

RECURSIVE Concats(_, _)
Concats(F, n) ==
    IF n = 0 THEN {""}
    ELSE LET W == Concats(F, n - 1) IN W \cup {w \o f : w \in W, f \in F}

ClassifyTexts == Concats(ClassifyFragments, MaxWords)

InitClassify ==
    /\ pc = "start"
    /\ text \in ClassifyTexts
    /\ price = 0
    /\ total = 0
    /\ result = << >>
    /\ ServerIdle

CallClassify ==
    /\ pc = "start"
    /\ pc' = "done"
    /\ result' = <<classify_document(text)>>
    /\ UNCHANGED <<text, price, total, storage, db, http>>

NextClassify == CallClassify

SpecClassify == InitClassify /\ [][NextClassify]_vars

(***************************************************************************)
(* Inputs of the sentiment rule: every concatenation of at most            *)
(* MaxSentimentWords of the fragments below: keywords of either list in    *)
(* any case, two keywords at once, a keyword cut in two, a keyword that    *)
(* overlaps its own repetition, and other words.                           *)
(***************************************************************************)
MaxSentimentWords == 2

SentimentFragments ==
    { "bueno ", "EXCELENTE", "Feliz", "bueno y feliz. ", "Positivo",
      "malo ", "Queja", "queja por un PROBLEMA. ", "negativo",
      "nada ", "buen", "o", "excelentExcelente" }

SentimentTexts == Concats(SentimentFragments, MaxSentimentWords)

InitSentiment ==
    /\ pc = "start"
    /\ text \in SentimentTexts
    /\ price = 0
    /\ total = 0
    /\ result = << >>
    /\ ServerIdle

CallSentiment ==
    /\ pc = "start"
    /\ pc' = "done"
    /\ result' = <<simple_sentiment(text)>>
    /\ UNCHANGED <<text, price, total, storage, db, http>>

NextSentiment == CallSentiment

SpecSentiment == InitSentiment /\ [][NextSentiment]_vars

(***************************************************************************)
(* Inputs of the numeric normaliser: every string of at most MaxFloatLen   *)
(* characters of FloatAlphabet, and the strings the documentation names.   *)
(***************************************************************************)
MaxFloatLen == 4

FloatAlphabet == {"0", "1", "8", ".", ",", " ", "€", "-", "e", "n", "a", "_"}

RECURSIVE Strings(_, _)
Strings(A, n) ==
    IF n = 0 THEN {""}
    ELSE LET W == Strings(A, n - 1) IN W \cup {w \o c : w \in W, c \in A}

FloatExamples ==
    { "1.308,80", "600,00", "1451", "abc", "inf", "-Infinity", "NaN", "1e3",
      "2e308", "1e-400", "\t7\n", "€ 12,5", "1.000.000" }

FloatTexts == Strings(FloatAlphabet, MaxFloatLen) \cup FloatExamples

InitFloat ==
    /\ pc = "start"
    /\ text \in FloatTexts
    /\ price = 0
    /\ total = 0
    /\ result = << >>
    /\ ServerIdle

CallToFloat ==
    /\ pc = "start"
    /\ pc' = "done"
    /\ result' = <<_to_float(text)>>
    /\ UNCHANGED <<text, price, total, storage, db, http>>

NextFloat == CallToFloat

SpecFloat == InitFloat /\ [][NextFloat]_vars

(***************************************************************************)
(* Inputs of the quantity inferencer: whole-number prices and totals, and  *)
(* the pairs the documentation names.                                      *)
(***************************************************************************)
MaxPrice == 40

MaxTotal == 100

QtyExamples ==
    { <<100, 200>>, <<93, 651>>, <<0, 100>>, <<150, 601>>, <<1, 15000>>,
      <<1, 10000>>, <<1, 10001>>, <<150, 600>>, <<20, 161>>, <<20, 159>> }

QtyInputs == ((-1..MaxPrice) \X (-1..MaxTotal)) \cup QtyExamples

InitQty ==
    /\ pc = "start"
    /\ text = ""
    /\ \E arg \in QtyInputs : price = arg[1] /\ total = arg[2]
    /\ result = << >>
    /\ ServerIdle

CallInferQty ==
    /\ pc = "start"
    /\ pc' = "done"
    /\ result' = <<_infer_qty_from_total(FromInt(price), FromInt(total))>>
    /\ UNCHANGED <<text, price, total, storage, db, http>>

NextQty == CallInferQty

SpecQty == InitQty /\ [][NextQty]_vars

(***************************************************************************)
(* Inputs of the line-item parser: a line is a head followed by at most    *)
(* MaxFields fields, a field a separator and a number; a text is one line  *)
(* or two of the listed lines.                                             *)
(***************************************************************************)
MaxFields == 3

ItemHeads == {"Producto 1", "producto", "A1 caja", ""}

ItemSeparators == {" ", " . "}

ItemNumbers == {"0", "20", "41", "7,5"}

ItemFields == {sep \o n : sep \in ItemSeparators, n \in ItemNumbers}

ItemLines == {h \o f : h \in ItemHeads, f \in Concats(ItemFields, MaxFields)}

\* a total of 309 digits, above the largest double
ItemHugeTotal == "Producto 2 ~ 150 " \o Repeat("9", 309)

ItemTextLines ==
    { "Producto 1 2 100 200,00", "Producto 3 7 93 651,00", "Producto 2 ~ 150 600,00",
      "Total: 1.308,8", "", "  ", "A1 caja 2 5 10", "Producto 12 100 200,00",
      "A1 x 2 1.50 3.00", ItemHugeTotal, "Producto 12 150 600" }

ItemTexts ==
    ItemLines \cup {a \o "\n" \o b : a \in ItemTextLines, b \in ItemTextLines}

InitItems ==
    /\ pc = "start"
    /\ text \in ItemTexts
    /\ price = 0
    /\ total = 0
    /\ result = << >>
    /\ ServerIdle

CallParseItems ==
    /\ pc = "start"
    /\ IF ParseError(text) # None
       THEN pc' = "raised" /\ result' = <<ParseError(text)>>
       ELSE pc' = "done" /\ result' = <<_parse_invoice_items(text)>>
    /\ UNCHANGED <<text, price, total, storage, db, http>>

NextItems == CallParseItems

SpecItems == InitItems /\ [][NextItems]_vars


(***************************************************************************)
(* Inputs of the field extractor: texts of at most MaxLines of the lines   *)
(* below, and the texts the documentation names.  ExtractLongGap puts more *)
(* than the 100 characters of the search window between a label and the    *)
(* next line; ItemHugeTotal is a line whose total exceeds every double.    *)
(***************************************************************************)
MaxLines == 3

ExtractLines ==
    { "Cliente: ACME", "Client:", "Razon social: Beta", "RAZÓN SOCIAL", " - Gamma",
      "Proveedor: Delta", "Subtotal: 100", "Total: 250, 98", "Total:", "IVA 21" }

RECURSIVE Texts(_, _)
Texts(L, n) ==
    IF n = 0 THEN {""}
    ELSE LET W == Texts(L, n - 1)
         IN  W \cup L \cup {w \o "\n" \o l : w \in W \ {""}, l \in L}

Spaces(n) == Repeat(" ", n)

ExtractLongGap == "Razon social: Beta\nClient:" \o Spaces(101) \o "ACME"

ExtractExamples ==
    { "Subtotal: 100\nTotal: 250, 98",
      "\n    Factura\n    Fecha de factura: 17/04/2024\n    Numero de factura: 2024-0001\n    Orlando Juan Loban Empresa de logistica, S. L.\n    Producto 1 2 100 200,00\n    Producto 3 7 93 651,00\n    Total: 1.308,8\n    ",
      ExtractLongGap,
      "Factura N° A-1\nFecha emisión: 01/02/2024\nACME SA",
      ItemHugeTotal,
      "Cliente: ACME\n" \o ItemHugeTotal \o "\nTotal: 5" }

ExtractTexts == Texts(ExtractLines, MaxLines) \cup ExtractExamples

InitExtract ==
    /\ pc = "start"
    /\ text \in ExtractTexts
    /\ price = 0
    /\ total = 0
    /\ result = << >>
    /\ ServerIdle

\* the items are parsed last; what that call raises leaves the function
CallExtract ==
    /\ pc = "start"
    /\ IF ParseError(text) # None
       THEN pc' = "raised" /\ result' = <<ParseError(text)>>
       ELSE pc' = "done" /\ result' = <<extract_invoice_data(text)>>
    /\ UNCHANGED <<text, price, total, storage, db, http>>

NextExtract == CallExtract

SpecExtract == InitExtract /\ [][NextExtract]_vars

(***************************************************************************)
(* Inputs for the client and the vendor: texts of at most MaxPartyLines of *)
(* the lines below: lines with a name before "Empresa de", a line with the *)
(* phrase and no name, labelled values, and a label without a value; and   *)
(* longer texts in which the label search fills both fields, one, or none. *)
(***************************************************************************)
MaxPartyLines == 2

PartyLines ==
    { "    Orlando Juan Loban Empresa de logistica, S. L.", "Ana Gil Empresa de gas",
      "empresa de nada", "luz y gas EMPRESA  DE sol", "Cliente: ACME",
      "Proveedor: Delta", "Razon social: Beta", "Emisor:" }

PartyExamples ==
    { "Cliente: ACME\nProveedor: Delta\nAna Gil Empresa de gas",
      "Emisor:\nAna Gil Empresa de gas\nCliente: ACME",
      "empresa de nada\nluz y gas EMPRESA  DE sol\nAna Gil Empresa de gas",
      "Razon social: Beta\n    Orlando Juan Loban Empresa de logistica, S. L.\nEmisor:" }

PartyTexts == Texts(PartyLines, MaxPartyLines) \cup PartyExamples

InitParties ==
    /\ pc = "start"
    /\ text \in PartyTexts
    /\ price = 0
    /\ total = 0
    /\ result = << >>
    /\ ServerIdle

SpecParties == InitParties /\ [][NextExtract]_vars

(***************************************************************************)
(* Inputs for the invoice number, the date and the total of a text with no *)
(* line that mentions "total": texts of at most MaxHeaderLines of the      *)
(* lines below, and texts at the edges of the date patterns (a gap of 15   *)
(* and of 16 characters after the label, a label on the line before the    *)
(* date, digits that continue after the year, a year of one digit).        *)
(***************************************************************************)
MaxHeaderLines == 2

HeaderLines ==
    { "Numero de factura: 2024-0001", "Factura N° A-1", "N° factura: B-7",
      "n° comprobante 55", "Nro factura", "Fecha emisión: 01/02/2024",
      "Vence 3/4/25", "Fecha comprobante del dia martes 5-6-2024",
      "Importe 1.308,80.", "Pago en efectivo" }

HeaderExamples ==
    { "1/1/11 Fecha comprobante del dia lunes  7/8/24",
      "1/1/11 FECHA  FACTURA del dia lunes 7/8/24 y 9/9/99",
      "Vence 3/4/25\nFecha factura\nPago 10-11-2026",
      "Vence 12/3/20245",
      "Fecha emision 1/2/20245",
      "Vence 5/6/7",
      "Factura No",
      "n° comprobante 55\nFactura N° A-1\nNumero de factura: 2024-0001",
      "Vence 3/4/25\nImporte 1.308,80.\nPago en efectivo",
      "NÚMERO DE FACTURA # x-9/a. fin" }

HeaderTexts == Texts(HeaderLines, MaxHeaderLines) \cup HeaderExamples

InitHeader ==
    /\ pc = "start"
    /\ text \in HeaderTexts
    /\ price = 0
    /\ total = 0
    /\ result = << >>
    /\ ServerIdle

SpecHeader == InitHeader /\ [][NextExtract]_vars

(***************************************************************************)
(* Inputs of the analyser: every concatenation of at most MaxParts of the  *)
(* fragments below (invoice keywords, sentiment words, sentences, a line   *)
(* break), and the texts the tests use.  AnalyzeLong is longer than the    *)
(* 200 characters of the description.                                      *)
(***************************************************************************)
MaxParts == 3

AnalyzeFragments ==
    { "Factura. ", "IVA 21\n", "Total: 5. ", "Muy bueno. ", "un problema", " . ", "Excelente\n" }

AnalyzeLong == Repeat("Una queja.\n", 19) \o "Fin"

AnalyzeExamples ==
    { "Este es un texto cualquiera, sin palabras de factura.",
      "\n    Factura\n    Fecha de factura: 17/04/2024\n    Numero de factura: 2024-0001\n    Orlando Juan Loban Empresa de logistica, S. L.\n    Producto 1 2 100 200,00\n    Producto 3 7 93 651,00\n    Total: 1.308,8\n    ",
      AnalyzeLong,
      "Factura con IVA. " \o AnalyzeLong,
      "Factura IVA\n" \o ItemHugeTotal }

AnalyzeTexts == Concats(AnalyzeFragments, MaxParts) \cup AnalyzeExamples

InitAnalyze ==
    /\ pc = "start"
    /\ text \in AnalyzeTexts
    /\ price = 0
    /\ total = 0
    /\ result = << >>
    /\ ServerIdle

\* on an invoice the extractor is called, and what it raises leaves the function
CallAnalyze ==
    /\ pc = "start"
    /\ IF AnalyzeError(text) # None
       THEN pc' = "raised" /\ result' = <<AnalyzeError(text)>>
       ELSE pc' = "done" /\ result' = <<analyze_document(text)>>
    /\ UNCHANGED <<text, price, total, storage, db, http>>

NextAnalyze == CallAnalyze

SpecAnalyze == InitAnalyze /\ [][NextAnalyze]_vars

(***************************************************************************)
(* app/security.py: the bearer token of a request                          *)
(***************************************************************************)
HTTPException(status_code, detail) ==
    [k |-> "HTTPException", status_code |-> status_code, detail |-> detail]

IsHTTPException(v) == v.k = "HTTPException"

\* the payload of a token: sub and role
Payload(sub, role) == [k |-> "payload", sub |-> sub, role |-> role]

\* a payload without the key "role"
PayloadWithoutRole(sub) == [k |-> "payload", sub |-> sub]

\* Authorization: Bearer <token>.  signature is "valid" for a token signed
\* with SECRET_KEY and "forged" otherwise (a malformed token included);
\* expiry is "fresh" or "expired".
Bearer(signature, expiry, payload) ==
    [k |-> "bearer", signature |-> signature, expiry |-> expiry, payload |-> payload]

\* no Authorization header, or one that is not of the Bearer scheme
NoCredentials == [k |-> "none"]

\* jwt.decode verifies the signature, then the expiry
decode_token(token) ==
    IF token.signature # "valid" THEN HTTPException(401, "Invalid token")
    ELSE IF token.expiry = "expired" THEN HTTPException(401, "Token expired")
    ELSE token.payload

\* HTTPBearer() rejects a request without credentials with the status
\* not_authenticated (403, or 401 in later releases of the framework)
get_current_user(credentials, not_authenticated) ==
    IF credentials = NoCredentials
    THEN HTTPException(not_authenticated, "Not authenticated")
    ELSE decode_token(credentials)

\* user.get("role"): << >> for a missing key
RoleOf(user) == IF "role" \in DOMAIN user THEN <<user.role>> ELSE << >>

\* the slip that lets every decoded token pass
require_any_role(role, user) == user

\* the wrapper of require_role(role), given the outcome of get_current_user
require_role(role, user) ==
    IF IsHTTPException(user) THEN user
    ELSE IF RoleOf(user) # <<role>> THEN HTTPException(403, "Forbidden")
    ELSE user

(***************************************************************************)
(* app/aws_s3.py and the text extraction                                   *)
(***************************************************************************)
\* filename.split(".")[-1].lower() if "." in filename else "bin"
KeyExt(filename) ==
    IF Contains(filename, ".") THEN Lower(Last(Split(filename, "."))) ELSE "bin"

\* save_file: the key of the new object.  The uuid4 of the source is
\* modelled by the ordinal of the object in the bucket.
save_file(st, filename) ==
    "uploads/" \o Ch(DigitStr, Len(st) + 2) \o "." \o KeyExt(filename)

\* os.path.splitext(name)[1] for a name without directories or leading dots
SplitExt(name) == IF Contains(name, ".") THEN "." \o Last(Split(name, ".")) ELSE ""

\* ocr is what the PDF reader or Tesseract makes of the bytes ("" when it fails)
extract_text_from_document(ocr, filename) ==
    IF SplitExt(Lower(filename)) \in {".pdf", ".jpg", ".jpeg", ".png"} THEN ocr ELSE ""

(***************************************************************************)
(* app/routers/documents.py: POST /documents/analyze                       *)
(***************************************************************************)
\* what a handler leaves: the response, the bucket and the committed tables
Response(status, body, st, d) == [status |-> status, body |-> body, storage |-> st, db |-> d]

\* the response FastAPI makes of an HTTPException
Failed(e, st, d) == Response(e.status_code, [detail |-> e.detail], st, d)

_ALLOWED_CONTENT_TYPES == {"application/pdf", "image/jpeg", "image/png"}

\* the slip that lets the keys of the analysis win: {"description": ..., "text": ..., **core_extracted}
ExtractedUnderAnalysis(core_extracted, description, text_) ==
    core_extracted @@ ("description" :> description @@ "text" :> text_)

\* {**core_extracted, "description": description, "text": text}
Extracted(core_extracted, description, text_) ==
    ("description" :> description @@ "text" :> text_) @@ core_extracted

Document(d, filename, s3_key, doc_type, extracted_data) ==
    [id |-> Len(d.documents) + 1, filename |-> filename, s3_key |-> s3_key,
     doc_type |-> doc_type, extracted_data |-> extracted_data]

EventLog(d, event_type, description) ==
    [id |-> Len(d.eventlogs) + 1, event_type |-> event_type, description |-> description]

DocumentEvent(d, filename, doc_type, user, storage_key) ==
    EventLog(d, "DOC_ANALYSIS",
             "Documento " \o filename \o " (" \o doc_type \o ") analizado y guardado por usuario "
             \o user.sub \o " (s3:" \o storage_key \o ")")

\* the 201 response, read from the refreshed row
DocumentResponse(document, storage_key, extracted) ==
    [document_id |-> document.id, filename |-> document.filename,
     doc_type |-> document.doc_type, storage |-> [type |-> "s3", key |-> storage_key],
     extracted |-> extracted]

\* the slip that commits the document before the event is added
DocumentRowAlone(d, user, storage_key, document) ==
    [d EXCEPT !.documents = Append(@, document)]

\* the tables after db.add(document), db.add(event), db.commit()
DocumentRows(d, user, storage_key, document) ==
    [d EXCEPT !.documents = Append(@, document),
              !.eventlogs = Append(@, DocumentEvent(d, document.filename, document.doc_type,
                                                    user, storage_key))]

\* db.add(document), db.add(event), db.commit(), db.refresh(document): a
\* failed commit rolls both rows back; after a commit the rollback of a
\* failed refresh undoes nothing
DocumentCommitted(st, d, user, storage_key, document, extracted, commit_ok, refresh_ok) ==
    IF ~commit_ok
    THEN Failed(HTTPException(500, "Error al registrar el documento en la base de datos"), st, d)
    ELSE IF ~refresh_ok
    THEN Failed(HTTPException(500, "Error al registrar el documento en la base de datos"), st,
                DocumentRows(d, user, storage_key, document))
    ELSE Response(201, DocumentResponse(document, storage_key, extracted), st,
                  DocumentRows(d, user, storage_key, document))

\* the slip that stores the default type instead of the analysed one
DocumentOfDefaultType(st, d, user, filename, description, storage_key, text_, core_extracted, commit_ok, refresh_ok) ==
    DocumentCommitted(st, d, user, storage_key,
                      Document(d, filename, storage_key, "informacion",
                               Extracted(core_extracted, description, text_)),
                      Extracted(core_extracted, description, text_), commit_ok, refresh_ok)

\* lines 109-157: the row and the response of an analysed document
DocumentAnalysed(st, d, user, filename, description, storage_key, text_, core_extracted, commit_ok, refresh_ok) ==
    DocumentCommitted(st, d, user, storage_key,
                      Document(d, filename, storage_key, core_extracted.doc_type,
                               Extracted(core_extracted, description, text_)),
                      Extracted(core_extracted, description, text_), commit_ok, refresh_ok)

\* lines 34-77: the analysis of the extracted text, or the exception it raises
_run_ai_analysis(text_) ==
    IF AnalyzeError(text_) # None
    THEN [raised |-> TRUE, value |-> AnalyzeError(text_)]
    ELSE [raised |-> FALSE, value |-> analyze_document(text_)]

\* lines 106-107: the object is in the bucket; extraction, then analysis
DocumentStored(st, d, user, filename, description, storage_key, text_, core, commit_ok, refresh_ok) ==
    IF core.raised
    THEN Failed(HTTPException(500, "Error en el análisis de IA del documento"), st, d)
    ELSE DocumentAnalysed(st, d, user, filename, description, storage_key, text_,
                          core.value, commit_ok, refresh_ok)

\* the exception that ends the request before anything is uploaded: that of
\* the dependency require_role("uploader"), of the validation or of the read
DocumentRejection(user, file) ==
    IF IsHTTPException(user) THEN user
    ELSE IF file.content_type \notin _ALLOWED_CONTENT_TYPES
    THEN HTTPException(400, "Solo se permiten archivos PDF, JPG o PNG")
    ELSE IF file.filename = "" THEN HTTPException(400, "El archivo no tiene nombre")
    ELSE IF file.data = "" THEN HTTPException(400, "El archivo está vacío")
    ELSE None

\* the handler, user being the outcome of the dependency require_role("uploader");
\* analysis maps a text to the outcome of _run_ai_analysis
analyze_document_endpoint(st, d, user, file, description, save_ok, ocr, analysis, commit_ok, refresh_ok) ==
    IF DocumentRejection(user, file) # None THEN Failed(DocumentRejection(user, file), st, d)
    ELSE IF ~save_ok
    THEN Failed(HTTPException(500, "Error al guardar el archivo"), st, d)
    ELSE DocumentStored(Append(st, save_file(st, file.filename)), d, user, file.filename,
                        description, save_file(st, file.filename),
                        extract_text_from_document(ocr, file.filename),
                        analysis[extract_text_from_document(ocr, file.filename)], commit_ok, refresh_ok)

(***************************************************************************)
(* app/routers/files.py: POST /files/upload-csv.  A CSV file is modelled   *)
(* for the plain files of CsvDatas: comma-separated fields without quotes. *)
(***************************************************************************)
RECURSIVE NonBlank(_)
\* the lines that are not blank: the reader skips the others
NonBlank(lines) ==
    IF lines = << >> THEN << >>
    ELSE (IF Strip(Head(lines), Space) = "" THEN << >> ELSE <<Head(lines)>>)
         \o NonBlank(Tail(lines))

\* the records of the file, the header first, each a sequence of fields
CsvRecords(data) ==
    [i \in 1..Len(NonBlank(SplitLines(data))) |-> Split(NonBlank(SplitLines(data))[i], ",")]

\* list(csv.DictReader(...)): the records after the header
_parse_csv_rows(data) == Tail(CsvRecords(data))

\* the 0-based indexes of the rows with an empty or missing value
EmptyRows(columns, rows) ==
    {i - 1 : i \in {j \in 1..Len(rows) :
                       \/ Len(rows[j]) < Len(columns)
                       \/ \E c \in 1..Len(rows[j]) : rows[j][c] = ""}}

\* the 0-based indexes of the rows equal to an earlier row
DuplicatedRows(rows) ==
    {i - 1 : i \in {j \in 1..Len(rows) : \E e \in 1..(j - 1) : rows[e] = rows[j]}}

\* the summary of validate_csv_file, for a file with a header
Summary(columns, rows) ==
    [row_count |-> Len(rows), columns |-> columns,
     issues |-> [empty |-> EmptyRows(columns, rows), duplicated |-> DuplicatedRows(rows)]]

\* pandas raises on a file without a header
ValidationError(data) ==
    IF CsvRecords(data) = << >> THEN [k |-> "EmptyDataError"] ELSE None

validate_csv_file(data) == Summary(Head(CsvRecords(data)), Tail(CsvRecords(data)))

CsvFile(d, filename, dataset_name, description, s3_key, uploaded_by, validation_summary) ==
    [id |-> Len(d.csvfiles) + 1, filename |-> filename, dataset_name |-> dataset_name,
     description |-> description, s3_key |-> s3_key, uploaded_by |-> uploaded_by,
     validation_summary |-> validation_summary]

\* the rows of the file csv_record, numbered from 1
CsvRows(d, csv_record, rows) ==
    [i \in 1..Len(rows) |->
        [id |-> Len(d.csvrows) + i, file_id |-> csv_record.id, row_number |-> i,
         data |-> rows[i]]]

CsvEvent(d, filename, user, storage_key, dataset_name) ==
    EventLog(d, "UPLOAD_CSV",
             "Archivo " \o filename \o " subido por usuario " \o user.sub
             \o " (s3:" \o storage_key \o "), dataset='" \o dataset_name \o "'")

CsvResponse(csv_record, storage_key, validation) ==
    [file_id |-> csv_record.id, filename |-> csv_record.filename,
     dataset_name |-> csv_record.dataset_name, description |-> csv_record.description,
     storage |-> [type |-> "s3", key |-> storage_key], validation |-> validation]

\* lines 124-181: the file, its rows and the event are committed together
CsvCommitted(st, d, user, storage_key, csv_record, rows, validation, commit_ok) ==
    IF user.sub = "" \/ ~AllDigits(user.sub) \/ ~commit_ok
    THEN Failed(HTTPException(500, "Error al registrar el archivo en la base de datos"), st, d)
    ELSE Response(201, CsvResponse(csv_record, storage_key, validation), st,
                  [d EXCEPT !.csvfiles = Append(@, csv_record),
                            !.csvrows = @ \o CsvRows(d, csv_record, rows),
                            !.eventlogs = Append(@, CsvEvent(d, csv_record.filename, user,
                                                             storage_key,
                                                             csv_record.dataset_name))])

\* lines 112-121: the object is in the bucket; validation, then the tables
CsvStored(st, d, user, file, dataset_name, description, storage_key, commit_ok) ==
    IF ValidationError(file.data) # None
    THEN Failed(HTTPException(400, "Error al validar el CSV"), st, d)
    ELSE CsvCommitted(st, d, user, storage_key,
                      CsvFile(d, file.filename, Strip(dataset_name, Space),
                              Strip(description, Space), storage_key, ToInt(user.sub),
                              validate_csv_file(file.data)),
                      _parse_csv_rows(file.data), validate_csv_file(file.data), commit_ok)

\* str.endswith
EndsWith(s, suffix) == Len(s) >= Len(suffix) /\ Slice(s, Len(s) - Len(suffix), Len(s)) = suffix

\* the exception that ends the request before anything is uploaded
CsvRejection(user, file) ==
    IF IsHTTPException(user) THEN user
    ELSE IF file.filename = "" THEN HTTPException(400, "El archivo no tiene nombre")
    ELSE IF ~EndsWith(Lower(file.filename), ".csv")
    THEN HTTPException(400, "Solo se permiten archivos con extensión .csv")
    ELSE IF file.data = "" THEN HTTPException(400, "El archivo CSV está vacío")
    ELSE None

upload_csv(st, d, user, file, dataset_name, description, save_ok, commit_ok) ==
    IF CsvRejection(user, file) # None THEN Failed(CsvRejection(user, file), st, d)
    ELSE IF ~save_ok
    THEN Failed(HTTPException(500, "Error al guardar el archivo"), st, d)
    ELSE CsvStored(Append(st, save_file(st, file.filename)), d, user, file, dataset_name,
                   description, save_file(st, file.filename), commit_ok)

(***************************************************************************)
(* app/routers/events.py: GET /events and GET /events/export, with the     *)
(* filter event_type (the filters description, date_from and date_to are   *)
(* absent from the modelled requests)                                      *)
(***************************************************************************)
RECURSIVE Events(_, _)
\* the rows of the given type ("" for all), the latest first
Events(eventlogs, event_type) ==
    IF eventlogs = << >> THEN << >>
    ELSE Events(Tail(eventlogs), event_type)
         \o (IF event_type = "" \/ Head(eventlogs).event_type = event_type
             THEN <<Head(eventlogs)>> ELSE << >>)

list_events(st, d, user, event_type) ==
    IF IsHTTPException(user) THEN Failed(user, st, d)
    ELSE Response(200, Events(d.eventlogs, event_type), st, d)

export_events_to_excel(st, d, user, event_type) ==
    IF IsHTTPException(user) THEN Failed(user, st, d)
    ELSE IF Events(d.eventlogs, event_type) = << >>
    THEN Failed(HTTPException(404, "No hay eventos para exportar"), st, d)
    ELSE Response(200, [sheet_name |-> "Eventos", rows |-> Events(d.eventlogs, event_type)],
                  st, d)

(***************************************************************************)
(* The API serving at most MaxRequests requests.  A request carries one of *)
(* Credentials; the outcomes of the bucket, of the text extraction and of  *)
(* the commit are drawn when the handler gets to them.                     *)
(***************************************************************************)
MaxRequests == 2

Credentials ==
    { NoCredentials,
      Bearer("forged", "fresh", Payload("40", "uploader")),
      Bearer("valid", "expired", Payload("40", "uploader")),
      Bearer("valid", "fresh", Payload("40", "uploader")),
      Bearer("valid", "fresh", Payload("40", "admin")),
      Bearer("valid", "fresh", PayloadWithoutRole("40")) }

\* the statuses HTTPBearer may answer a request without credentials with
NotAuthenticated(credentials) == IF credentials = NoCredentials THEN {401, 403} ELSE {403}

DocumentFiles ==
    { [filename |-> "factura.jpg", content_type |-> "image/jpeg", data |-> "fake-bytes"],
      [filename |-> "nota.txt", content_type |-> "image/jpeg", data |-> "fake"],
      [filename |-> "doc.PDF", content_type |-> "application/pdf", data |-> ""],
      [filename |-> "notas.doc", content_type |-> "text/plain", data |-> "hola"],
      [filename |-> "", content_type |-> "image/png", data |-> "hola"] }

Descriptions == {"", "Factura de prueba"}

\* the forms posted to /documents/analyze: every file without a description,
\* and the image of an invoice with each description
DocumentForms ==
    {form \in [file : DocumentFiles, description : Descriptions] :
        form.description = "" \/ form.file.filename = "factura.jpg"}

OcrTexts ==
    { "", "Este es un texto cualquiera, sin palabras de factura.",
      "Factura\nIVA 21\nTotal: 5", "Factura IVA\n" \o ItemHugeTotal }

\* the analysis of every text the extraction can return
Analyses == [t \in OcrTexts |-> _run_ai_analysis(t)]

\* the outcomes of the bucket, the extraction, the commit and the refresh,
\* for a request that gets to them
DocumentOutcomes(rejection) ==
    IF rejection # None
    THEN {[save_ok |-> FALSE, ocr |-> "", commit_ok |-> FALSE, refresh_ok |-> FALSE]}
    ELSE {[save_ok |-> FALSE, ocr |-> "", commit_ok |-> FALSE, refresh_ok |-> FALSE]}
         \cup [save_ok : {TRUE}, ocr : OcrTexts, commit_ok : {FALSE}, refresh_ok : {FALSE}]
         \cup [save_ok : {TRUE}, ocr : OcrTexts, commit_ok : {TRUE}, refresh_ok : BOOLEAN]

CsvDatas ==
    { "id,valor\n1,100\n2,200\n", "id,valor\n1,\n\n1,\n", "\n", "" }

CsvFiles ==
    [filename : {"test.csv"}, data : CsvDatas]
    \cup {[filename |-> "datos.txt", data |-> "id,valor\n1,100\n2,200\n"]}

CsvForms ==
    { [dataset_name |-> "", description |-> ""],
      [dataset_name |-> " ventas ", description |-> "Ventas de mayo"] }

CsvOutcomes(rejection) ==
    IF rejection # None THEN {[save_ok |-> FALSE, commit_ok |-> FALSE]}
    ELSE {[save_ok |-> FALSE, commit_ok |-> FALSE]} \cup [save_ok : {TRUE}, commit_ok : BOOLEAN]

\* the uploads posted to /files/upload-csv: every file with the empty form,
\* and a well-formed file with each form
CsvUploads ==
    {upload \in [file : CsvFiles, form : CsvForms] :
        \/ upload.form.dataset_name = ""
        \/ upload.file = [filename |-> "test.csv", data |-> "id,valor\n1,100\n2,200\n"]}

EventTypes == {"", "DOC_ANALYSIS", "UPLOAD_CSV"}

\* the handlers of /events draw nothing
NoOutcome == [k |-> "none"]

\* the number of requests answered
Served == IF http = NoExchange THEN 0 ELSE http.n

InitServer ==
    /\ pc = "serving"
    /\ text = ""
    /\ price = 0
    /\ total = 0
    /\ result = << >>
    /\ ServerIdle

\* the request is answered, and the handler's writes are in place (env: the
\* outcomes drawn for it)
Serve(endpoint, credentials, form, env, outcome) ==
    /\ http' = [k |-> "exchange", n |-> Served + 1, endpoint |-> endpoint,
                credentials |-> credentials, form |-> form, env |-> env,
                status |-> outcome.status, body |-> outcome.body]
    /\ storage' = outcome.storage
    /\ db' = outcome.db
    /\ UNCHANGED <<pc, text, price, total, result>>

AnalyzeAs(credentials, user, file, description) ==
    \E env \in DocumentOutcomes(DocumentRejection(user, file)) :
        Serve("POST /documents/analyze", credentials,
              [file |-> file, description |-> description], env,
              analyze_document_endpoint(storage, db, user, file, description, env.save_ok,
                                        env.ocr, Analyses, env.commit_ok,
                                        env.refresh_ok))

AnalyzeDocument ==
    /\ Served < MaxRequests
    /\ \E credentials \in Credentials, form \in DocumentForms :
          \E not_authenticated \in NotAuthenticated(credentials) :
              AnalyzeAs(credentials,
                        require_role("uploader",
                                     get_current_user(credentials, not_authenticated)),
                        form.file, form.description)

UploadAs(credentials, user, file, form) ==
    \E env \in CsvOutcomes(CsvRejection(user, file)) :
        Serve("POST /files/upload-csv", credentials, [file |-> file] @@ form, env,
              upload_csv(storage, db, user, file, form.dataset_name, form.description,
                         env.save_ok, env.commit_ok))

UploadCsv ==
    /\ Served < MaxRequests
    /\ \E credentials \in Credentials, upload \in CsvUploads :
          \E not_authenticated \in NotAuthenticated(credentials) :
              UploadAs(credentials,
                       require_role("uploader",
                                    get_current_user(credentials, not_authenticated)),
                       upload.file, upload.form)

ListEvents ==
    /\ Served < MaxRequests
    /\ \E credentials \in Credentials, event_type \in EventTypes :
          \E not_authenticated \in NotAuthenticated(credentials) :
              Serve("GET /events", credentials, [event_type |-> event_type], NoOutcome,
                    list_events(storage, db,
                                require_role("uploader",
                                             get_current_user(credentials, not_authenticated)),
                                event_type))

ExportEvents ==
    /\ Served < MaxRequests
    /\ \E credentials \in Credentials, event_type \in EventTypes :
          \E not_authenticated \in NotAuthenticated(credentials) :
              Serve("GET /events/export", credentials, [event_type |-> event_type], NoOutcome,
                    export_events_to_excel(storage, db,
                                require_role("uploader",
                                             get_current_user(credentials, not_authenticated)),
                                event_type))

NextServer == AnalyzeDocument \/ UploadCsv \/ ListEvents \/ ExportEvents

SpecServer == InitServer /\ [][NextServer]_vars


(***************************************************************************)
(* Properties                                                              *)
(***************************************************************************)
\* the entries of invoice_keywords that occur in the lower-cased text
MatchedKeywords(t) ==
    LET tl == Lower(t)
    IN  {n \in 1..Len(invoice_keywords) :
            \E i \in 0..Len(tl) : OccursAt(tl, invoice_keywords[n], i)}

\* C1: classify_document returns "factura" if and only if at least two
\* distinct entries of the keyword list occur in the lower-cased text, and
\* "informacion" otherwise, however often one entry occurs.
C1_ClassifyThreshold ==
    pc = "done" =>
        /\ Ret \in {"factura", "informacion"}
        /\ Ret = "factura" <=> Cardinality(MatchedKeywords(text)) >= 2

\* C1, its case: one keyword entry occurs twice, nothing else does, and the
\* text is classified "informacion".
C1_Witness ==
    /\ pc = "done"
    /\ MatchedKeywords(text) = {5}
    /\ Count(Lower(text), "iva") = 2
    /\ Ret = "informacion"

\* C2 as stated, over the reals: None for price <= 0; else the integer r with
\* |total/price - r| < 0.05 and 1 <= r <= 10000 when there is one, else None.
C2_ToleranceOverReals ==
    pc = "done" =>
        Ret = IF price <= 0 THEN None
              ELSE LET q == total \div price
                       ok(r) == /\ 20 * Abs(total - r * price) < price
                                /\ 1 <= r /\ r <= 10000
                   IN  IF ok(q) THEN PyInt(q)
                       ELSE IF ok(q + 1) THEN PyInt(q + 1)
                       ELSE None

\* C3 as stated: no quantity is inferred for unit price 150 and total 601.
C3_NoneFor150And601 ==
    (pc = "done" /\ price = 150 /\ total = 601) => Ret = None

\* C3, amended: _infer_qty_from_total(150, 601) returns 4, the ratio 4.0067
\* being within the tolerance 0.05 of 4.
C3_FourFor150And601 ==
    (pc = "done" /\ price = 150 /\ total = 601) => Ret = PyInt(4)

\* C3, its case: the call with price 150 and total 601 has returned.
C3_Witness == pc = "done" /\ price = 150 /\ total = 601

\* a plain locale-formatted decimal number: digits, grouping dots, at most
\* one decimal comma, the currency symbol and whitespace, at least one digit
PlainNumber(str) ==
    /\ \A i \in 1..Len(str) : Ch(str, i) \in Digit \cup {".", ",", "€"} \cup Space
    /\ Count(str, ",") <= 1
    /\ \E i \in 1..Len(str) : Ch(str, i) \in Digit

\* C4 as stated: _to_float returns 0.0 for every string that is not a plain
\* locale-formatted decimal number.
C4_ZeroForMalformed ==
    (pc = "done" /\ ~PlainNumber(text)) => Ret = Zero

RECURSIVE DigitsOf(_)
\* the digits of a string, in order
DigitsOf(str) ==
    IF str = "" THEN ""
    ELSE (IF Head(str) \in Digit THEN Head(str) ELSE "") \o DigitsOf(Tail(str))

\* the number a string of digits, dots and one comma denotes when every dot
\* is dropped and the comma is the decimal point
CommaDecimal(str) ==
    LET c == Find(str, ",")
        ip == DigitsOf(IF c = -1 THEN str ELSE Slice(str, 0, c))
        fp == DigitsOf(IF c = -1 THEN "" ELSE Slice(str, c + 1, Len(str)))
    IN  Norm(ToInt(ip \o fp), -Len(fp))

\* C5: for a string of digits, grouping dots and at most one decimal comma
\* (with the euro sign and spaces), _to_float returns the number read with
\* every "." dropped and "," as the decimal point.
C5_CommaIsDecimalPoint ==
    (/\ pc = "done"
     /\ PlainNumber(text)
     /\ \A i \in 1..Len(text) : Ch(text, i) \in Digit \cup {".", ",", "€", " "})
        => Ret = CommaDecimal(text)

\* C5, its case: "1.308,80" has been read as 1308.8.
C5_Witness == pc = "done" /\ text = "1.308,80" /\ Ret = Float(13088, -1)

\* the stripped lines of the text that are not blank
ItemLinesOf(t) ==
    LET lines == SplitLines(t)
        kept == SelectSeq([i \in 1..Len(lines) |-> Strip(lines[i], Space)],
                          LAMBDA l : l # "")
    IN  kept

NonNegative(v) == v = PosInf \/ (IsNumber(v) /\ v.m >= 0)

\* C6: every item _parse_invoice_items returns has an integer quantity of at
\* least 1, a unit price of at least 0 and a total of at least 0.
C6_QuantityAtLeastOne ==
    pc = "done" =>
        \A i \in 1..Len(Ret) :
            /\ Ret[i].cantidad >= 1
            /\ NonNegative(Ret[i].precio_unitario)
            /\ NonNegative(Ret[i].total)

MatchesBoth(line) ==
    /\ ReMatch(_product_line_regex, line, TRUE).ok
    /\ ReMatch(_item_line_regex, line, FALSE).ok

\* the item made of the groups _product_line_regex captures in the line
ProductItem(line) ==
    LET m == ReMatch(_product_line_regex, line, TRUE)
    IN  Item(Strip(Group(line, m, "codigo"), Space),
             Strip(Group(line, m, "descripcion"), Space),
             ToInt(Group(line, m, "cantidad")),
             _to_float(Group(line, m, "precio")),
             _to_float(Group(line, m, "total")))

\* C7: when every non-blank line of the text matches both the "Producto"
\* pattern with quantity and the generic pattern, _parse_invoice_items returns
\* exactly one item per line, in order, and each item holds the fields the
\* "Producto" pattern captures: its description is the numeric identifier.
C7_ProductPatternFirst ==
    LET lines == ItemLinesOf(text)
    IN  (pc = "done" /\ lines # << >> /\ \A i \in 1..Len(lines) : MatchesBoth(lines[i]))
            => /\ Len(Ret) = Len(lines)
               /\ \A i \in 1..Len(lines) :
                     /\ Ret[i] = ProductItem(lines[i])
                     /\ Ret[i].descripcion # ""
                     /\ AllDigits(Ret[i].descripcion)

\* a line on which the generic pattern would capture the description "1 ."
C7_Witness ==
    /\ pc = "done"
    /\ text = "Producto 1 . 20 41 7,5"
    /\ MatchesBoth(text)
    /\ MatchedItem(text, ReMatch(_item_line_regex, text, FALSE), {" ", "-", "~"}).descripcion = "1 ."
    /\ Len(Ret) = 1
    /\ Ret[1].descripcion = "1"
    /\ Ret[1].cantidad = 20

InvoiceFields == {"cliente", "proveedor", "numero_factura", "fecha", "total", "items"}

\* C8: extract_invoice_data never raises: every call returns, and what it
\* returns has the six keys cliente, proveedor, numero_factura, fecha, total
\* and items.
C8_NeverRaises ==
    pc # "start" => (pc = "done" /\ DOMAIN Ret = InvoiceFields)

\* the offsets at which the label occurs in the lower-cased text
LabelOffsets(t, label) ==
    LET tl == Lower(t)
    IN  {i \in 0..(Len(t) - Len(label)) : SubSeq(tl, i + 1, i + Len(label)) = label}

\* The value following the label: the first line that is not blank once
\* trimmed, within the 100 characters after the first occurrence of the
\* label; "" when the label does not occur or no such line follows.
ValueAfter(t, label) ==
    LET hits == LabelOffsets(t, label)
        idx == CHOOSE i \in hits : \A j \in hits : i <= j
        from == idx + Len(label)
        window == SubSeq(t, from + 1, Min(Len(t), from + 100))
        lines == SplitLines(window)
        values == {n \in 1..Len(lines) : Strip(lines[n], LabelStrip) # ""}
    IN  IF hits = {} \/ values = {} THEN ""
        ELSE Strip(lines[CHOOSE n \in values : \A k \in values : n <= k], LabelStrip)

ClientValues(t) == {ValueAfter(t, "cliente"), ValueAfter(t, "client")} \ {""}

LegalNameValues(t) == {ValueAfter(t, "razón social"), ValueAfter(t, "razon social")} \ {""}

NumberChars == Digit \cup {".", ","}

HasDigit(line) == \E i \in 1..Len(line) : Ch(line, i) \in Digit

\* The last substring of the line that matches \d[\d.,]*, "" if none: the run
\* of digits, "." and "," around the last digit, from the first digit of the
\* run on.
LastNumber(line) ==
    LET n == Len(line)
        digits == {i \in 1..n : Ch(line, i) \in Digit}
        ld == CHOOSE i \in digits : \A j \in digits : i >= j
        before == Cardinality({i \in 1..ld : \A j \in i..ld : Ch(line, j) \in NumberChars})
        after == Cardinality({i \in ld..n : \A j \in ld..i : Ch(line, j) \in NumberChars})
        run == {i \in (ld - before + 1)..ld : Ch(line, i) \in Digit}
    IN  IF digits = {} THEN ""
        ELSE SubSeq(line, CHOOSE i \in run : \A j \in run : i <= j, ld + after - 1)

\* the lines of the text that mention "total", by index
TotalLines(t) ==
    LET lines == SplitLines(t)
    IN  {i \in 1..Len(lines) : Contains(Lower(lines[i]), "total")}

Greatest(S) == CHOOSE i \in S : \A j \in S : i >= j

\* C10, as stated: when a line mentions "total", the total field is the last
\* number of the LAST such line; no earlier line supplies the value.
C10_LastTotalLine ==
    (pc = "done" /\ TotalLines(text) # {})
        => Ret.total = LastNumber(SplitLines(text)[Greatest(TotalLines(text))])

\* C10, amended: the total field is the last number of the last line that
\* mentions "total" and holds a digit; a line that mentions "total" without a
\* digit supplies nothing.
C10_LastNumberedTotalLine ==
    LET lines == SplitLines(text)
        numbered == {i \in TotalLines(text) : HasDigit(lines[i])}
    IN  (pc = "done" /\ numbered # {})
            => Ret.total = LastNumber(lines[Greatest(numbered)])

\* the last line mentioning "total" holds no number: the earlier line supplies it
C10_Witness ==
    /\ pc = "done"
    /\ text = "Subtotal: 100\nTotal:"
    /\ Greatest(TotalLines(text)) = 2
    /\ Ret.total = "100"

InvoiceKeys == {"cliente", "proveedor", "numero_factura", "fecha", "total", "items"}

InformationKeys == {"description", "summary", "sentiment"}

\* C11: for every input text analyze_document returns a record; the record
\* has kind = doc_type, doc_type = classify_document(text) and raw_text_length
\* = the length of the text; it carries the six invoice fields exactly when
\* doc_type is "factura" (and then none of description, summary, sentiment),
\* and description, summary and sentiment exactly when doc_type is
\* "informacion" (and then no invoice field).
C11_AnalysisRecord ==
    pc # "start" =>
        /\ pc = "done"
        /\ Ret.kind = Ret.doc_type
        /\ Ret.doc_type = classify_document(text)
        /\ Ret.raw_text_length = Len(text)
        /\ Ret.doc_type \in {"factura", "informacion"}
        /\ Ret.doc_type = "factura" =>
              DOMAIN Ret = {"doc_type", "kind", "raw_text_length"} \cup InvoiceKeys
        /\ Ret.doc_type = "informacion" =>
              DOMAIN Ret = {"doc_type", "kind", "raw_text_length"} \cup InformationKeys

PartyLabels == ClientLabels \o LegalNameLabels \o VendorLabels

\* no client, vendor or legal-name label occurs in the text
NoPartyLabel(t) == \A k \in 1..Len(PartyLabels) : ~Contains(Lower(t), PartyLabels[k])

\* a capitalised name word: a capital and at least one more letter
NameWord(w) ==
    /\ Len(w) >= 2
    /\ Ch(w, 1) \in Capital
    /\ \A i \in 2..Len(w) : Ch(w, i) \in NameLetter

\* name words separated by single spaces
NameWords(n) ==
    /\ n # ""
    /\ \A k \in 1..Len(Split(n, " ")) : NameWord(Split(n, " ")[k])

\* line is "<capitalised name words> Empresa de <rest>" inside optional
\* surrounding blanks, and holds the phrase once
NamedEmpresaLine(line) ==
    LET l == Strip(line, Space)
        i == Find(l, " Empresa de")
    IN  /\ Count(Lower(l), "empresa de") = 1
        /\ i > 0
        /\ NameWords(Slice(l, 0, i))
        /\ Len(l) > i + Len(" Empresa de")

\* the lines of the text that hold "empresa de" in any case
EmpresaLines(t) ==
    {k \in 1..Len(SplitLines(t)) : Contains(Lower(SplitLines(t)[k]), "empresa de")}

Unauthorised(credentials) ==
    \/ credentials = NoCredentials
    \/ credentials.signature # "valid"
    \/ credentials.expiry = "expired"
    \/ RoleOf(credentials.payload) # <<"uploader">>

\* C13: a request to POST /documents/analyze, POST /files/upload-csv,
\* GET /events or GET /events/export without a bearer token, with an invalid
\* or expired token, or with a token whose role is not "uploader" is answered
\* with 401 or 403, and answering it uploads no object and writes no
\* Document, CsvFile, CsvRow or EventLog row.
C13_UnauthorisedWritesNothing ==
    [][Unauthorised(http'.credentials) =>
          /\ http'.endpoint \in {"POST /documents/analyze", "POST /files/upload-csv",
                                 "GET /events", "GET /events/export"}
          /\ http'.status \in {401, 403}
          /\ storage' = storage
          /\ db' = db]_vars

\* a token of another role has been refused after a document was stored
C13_Witness ==
    /\ Served = 2
    /\ http.endpoint = "POST /documents/analyze"
    /\ http.credentials = Bearer("valid", "fresh", Payload("40", "admin"))
    /\ http.status = 403
    /\ Len(storage) = 1
    /\ Len(db.documents) = 1
    /\ Len(db.eventlogs) = 1

\* the Document rows with the given id
DocumentsWithId(id) == {i \in 1..Len(db.documents) : db.documents[i].id = id}

\* C14: a 201 response of POST /documents/analyze reports the doc_type of
\* the persisted Document row, which is classify_document of the text
\* extracted from the upload, and its extracted.kind is that doc_type too.
C14_ResponseTypeIsPersistedType ==
    (http # NoExchange /\ http.endpoint = "POST /documents/analyze" /\ http.status = 201) =>
        /\ DocumentsWithId(http.body.document_id) # {}
        /\ \A i \in DocumentsWithId(http.body.document_id) :
              db.documents[i].doc_type = http.body.doc_type
        /\ http.body.doc_type =
              classify_document(extract_text_from_document(http.env.ocr,
                                                           http.form.file.filename))
        /\ http.body.extracted.kind = http.body.doc_type

\* an invoice has been analysed and stored
C14_Witness ==
    /\ http # NoExchange
    /\ http.endpoint = "POST /documents/analyze"
    /\ http.status = 201
    /\ http.body.doc_type = "factura"
    /\ http.env.ocr = "Factura\nIVA 21\nTotal: 5"
    /\ Len(db.documents) = 2

\* the line reads: product tag, numeric identifier, non-digit noise, price, total
NoQtyLine(line) == ReMatch(_product_line_noqty_regex, line, TRUE).ok

\* the item the claim expects of such a line: the identifier, the two
\* numbers and the inferred quantity, and no item when the inference fails
ExpectedOfNoQtyLine(line) ==
    LET m == ReMatch(_product_line_noqty_regex, line, TRUE)
        precio == _to_float(Group(line, m, "precio"))
        total_ == _to_float(Group(line, m, "total"))
        inferred == _infer_qty_from_total(precio, total_)
    IN  IF inferred.k = "int"
        THEN <<Item(Group(line, m, "codigo"), Group(line, m, "descripcion"), inferred.v,
                    precio, total_)>>
        ELSE << >>

RECURSIVE ExpectedOfNoQtyLines(_)
ExpectedOfNoQtyLines(lines) ==
    IF lines = << >> THEN << >>
    ELSE ExpectedOfNoQtyLine(Head(lines)) \o ExpectedOfNoQtyLines(Tail(lines))

\* C15: a line made of the product tag, a numeric identifier, non-digit noise
\* and two trailing numbers (price, total) yields an item only when
\* _infer_qty_from_total(price, total) returns a quantity, and then the item
\* with that quantity; when the inference fails the line yields no item.
\* Stated for the texts all of whose non-blank lines are such lines.
C15_QuantityInferredOrDropped ==
    (pc = "done" /\ ItemLinesOf(text) # << >>
     /\ \A i \in 1..Len(ItemLinesOf(text)) : NoQtyLine(ItemLinesOf(text)[i])) =>
        Ret = ExpectedOfNoQtyLines(ItemLinesOf(text))

\* one of the three patterns matches the stripped line
MatchesSomePattern(line) ==
    \/ ReMatch(_product_line_regex, line, TRUE).ok
    \/ ReMatch(_item_line_regex, line, FALSE).ok
    \/ ReMatch(_product_line_noqty_regex, line, TRUE).ok

RECURSIVE Flatten(_)
Flatten(seqs) == IF seqs = << >> THEN << >> ELSE Head(seqs) \o Flatten(Tail(seqs))

\* what each physical line contributes in the returned list: the list is
\* cut into one piece per line, a piece holding at most one item, and none
\* for a blank line or a line that matches no pattern
PiecesPerLine(t, items) ==
    \E pieces \in [1..Len(SplitLines(t)) -> {<< >>} \cup {<<it>> : it \in {items[i] : i \in 1..Len(items)}}] :
        /\ Flatten(pieces) = items
        /\ \A i \in 1..Len(SplitLines(t)) :
              LET line == Strip(SplitLines(t)[i], Space)
              IN  /\ (line = "" \/ ~MatchesSomePattern(line)) => pieces[i] = << >>
                  /\ pieces[i] # << >> => pieces[i] = _parse_invoice_items(line)

\* C16: _parse_invoice_items never raises, and the list it returns holds at
\* most one item per physical line, none for a blank line or a line matching
\* none of the three patterns, in the order of the lines that produced them.
C16_OneItemPerLineInOrder ==
    pc # "start" =>
        /\ pc = "done"
        /\ PiecesPerLine(text, Ret)

\* the same without the claim that nothing is raised
ReturnedPiecesPerLine == pc = "done" => PiecesPerLine(text, Ret)

RECURSIVE FirstValueAfter(_, _)
\* the value following the first label of the list that is followed by one
FirstValueAfter(t, labels) ==
    IF labels = << >> THEN ""
    ELSE IF ValueAfter(t, Head(labels)) # "" THEN ValueAfter(t, Head(labels))
    ELSE FirstValueAfter(t, Tail(labels))

\* what the label search leaves in cliente and in proveedor
LabelledCliente(t) == FirstValueAfter(t, ClientLabels \o LegalNameLabels)

LabelledProveedor(t) == FirstValueAfter(t, VendorLabels \o LegalNameLabels)

\* the "empresa de" heuristic has something to do
FallbackRuns(t) ==
    /\ LabelledCliente(t) = "" \/ LabelledProveedor(t) = ""
    /\ Contains(Lower(t), "empresa de")

\* C17: the "empresa de" heuristic changes nothing unless cliente or
\* proveedor is still empty after the label search and the text contains
\* "empresa de"; when it runs it leaves a value found by a label as it is and
\* fills only an empty field.
C17_FallbackFillsOnlyEmpty ==
    pc = "done" =>
        /\ LabelledCliente(text) # "" => Ret.cliente = LabelledCliente(text)
        /\ LabelledProveedor(text) # "" => Ret.proveedor = LabelledProveedor(text)
        /\ ~FallbackRuns(text) =>
              /\ Ret.cliente = LabelledCliente(text)
              /\ Ret.proveedor = LabelledProveedor(text)

\* a labelled client is kept while the empty vendor is filled from a line
\* whose name words would have given another client
C17_Witness ==
    /\ pc = "done"
    /\ FallbackRuns(text)
    /\ LabelledCliente(text) = "ACME"
    /\ LabelledProveedor(text) = ""
    /\ Ret.cliente = "ACME"
    /\ Ret.proveedor = "Empresa de gas"

\* C18: when no line of the text mentions "total" in any case, the total
\* field is the last substring of the whole text that looks like a number
\* (a digit followed by digits, "." and ","), exactly as it is written, and
\* it is empty only when the text holds no digit.
C18_LastNumberOfText ==
    (pc = "done" /\ TotalLines(text) = {}) =>
        /\ Ret.total = LastNumber(text)
        /\ Ret.total = "" <=> ~HasDigit(text)

\* the number is on an earlier line and keeps its separators
C18_Witness ==
    /\ pc = "done"
    /\ TotalLines(text) = {}
    /\ Len(SplitLines(text)) = 3
    /\ SplitLines(text)[2] = "Importe 1.308,80."
    /\ ~HasDigit(SplitLines(text)[3])
    /\ HasDigit(SplitLines(text)[1])
    /\ Ret.total = "1.308,80."

\* attempt (a): the token after "número de factura" / "numero de factura"
ByNumeroDeFactura(t) ==
    LET m == ReSearch(NumeroRegex, t, TRUE)
    IN  IF m.ok THEN Group(t, m, "1") ELSE ""

\* attempt (b): the token after a short label ("n° factura", "nro. factura",
\* "factura n°", ...)
ByShortLabel(t) ==
    LET m == ReSearch(NumeroShortRegex, t, TRUE)
    IN  IF m.ok THEN Group(t, m, "1") ELSE ""

\* The value following the label within max_chars characters of its first
\* occurrence: the first line of that window that is not blank once trimmed.
ValueWithin(t, label, max_chars) ==
    LET hits == LabelOffsets(t, label)
        from == Least(hits) + Len(label)
        lines == SplitLines(SubSeq(t, from + 1, Min(Len(t), from + max_chars)))
        values == {n \in 1..Len(lines) : Strip(lines[n], LabelStrip) # ""}
    IN  IF hits = {} \/ values = {} THEN ""
        ELSE Strip(lines[Least(values)], LabelStrip)

\* attempt (c): the value within 40 characters of the first label that has one
ByLabelWindow(t) ==
    LET found == {k \in 1..Len(NumeroLabels) : ValueWithin(t, NumeroLabels[k], 40) # ""}
    IN  IF found = {} THEN "" ELSE ValueWithin(t, NumeroLabels[Least(found)], 40)

\* C19: numero_factura is the first non-empty result of (a) the pattern for
\* "número de factura", (b) the pattern for the short labels, (c) the search
\* of a 40-character window after a label; an attempt that found a value is
\* never replaced by a later one.
C19_FirstAttemptWins ==
    pc = "done" =>
        /\ ByNumeroDeFactura(text) # "" => Ret.numero_factura = ByNumeroDeFactura(text)
        /\ (ByNumeroDeFactura(text) = "" /\ ByShortLabel(text) # "") =>
              Ret.numero_factura = ByShortLabel(text)
        /\ (ByNumeroDeFactura(text) = "" /\ ByShortLabel(text) = "") =>
              Ret.numero_factura = ByLabelWindow(text)

\* the three attempts find three different values, those of (c) and (b) on
\* earlier lines of the text, and the value of (a) is returned
C19_Witness ==
    /\ pc = "done"
    /\ text = "n° comprobante 55\nFactura N° A-1\nNumero de factura: 2024-0001"
    /\ ByLabelWindow(text) = "55"
    /\ ByShortLabel(text) = "A-1"
    /\ ByNumeroDeFactura(text) = "2024-0001"
    /\ Ret.numero_factura = "2024-0001"

\* the characters i..j of the string are digits (1-based, inside the string)
AllDigitsIn(s, i, j) == j <= Len(s) /\ \A k \in i..j : Ch(s, k) \in Digit

DateSeparator == {"/", "-"}

\* a day or month of a digits and of b digits and a year of c digits, with
\* separators between them, stand at position i of the string
DateAt(s, i, a, b, c) ==
    /\ i >= 1
    /\ i + a + b + c + 1 <= Len(s)
    /\ AllDigitsIn(s, i, i + a - 1)
    /\ Ch(s, i + a) \in DateSeparator
    /\ AllDigitsIn(s, i + a + 1, i + a + b)
    /\ Ch(s, i + a + b + 1) \in DateSeparator
    /\ AllDigitsIn(s, i + a + b + 2, i + a + b + c + 1)

\* the stretches D[/-]D[/-]Y that start at position i: one or two digits,
\* again, and two to four digits
DatesAt(s, i) ==
    {SubSeq(s, i, i + p[1] + p[2] + p[3] + 1) :
        p \in {q \in (1..2) \X (1..2) \X (2..4) : DateAt(s, i, q[1], q[2], q[3])}}

\* s is of the shape D[/-]D[/-]Y
DateShaped(s) == s \in DatesAt(s, 1)

Longest(S) == CHOOSE a \in S : \A b \in S : Len(a) >= Len(b)

DateLabels == {"emision", "emisión", "factura", "comprobante"}

\* the positions right after a date label that starts at position i:
\* "fecha", blanks, and one of the three words, in any case
DateLabelEnds(s, i) ==
    {e \in (i + 6)..(Len(s) + 1) :
        /\ Lower(SubSeq(s, i, i + 4)) = "fecha"
        /\ \E k \in (i + 6)..e :
              /\ \A j \in (i + 5)..(k - 1) : Ch(s, j) \in Space
              /\ Lower(SubSeq(s, k, e - 1)) \in DateLabels}

\* the lengths, at most 15, of the stretches without a digit from position e
DateGaps(s, e) ==
    {n \in 0..15 : e + n - 1 <= Len(s) /\ \A j \in e..(e + n - 1) : Ch(s, j) \notin Digit}

\* the dates that follow a label starting at position i after at most 15
\* characters, none of them a digit
LabelledDatesAt(s, i) ==
    UNION {UNION {DatesAt(s, e + g) : g \in DateGaps(s, e)} : e \in DateLabelEnds(s, i)}

\* the date tokens that start at position i: stretches of the date shape
\* with no word character right before or right after
BareDatesAt(s, i) ==
    {d \in DatesAt(s, i) :
        /\ i = 1 \/ Ch(s, i - 1) \notin Word
        /\ i + Len(d) > Len(s) \/ Ch(s, i + Len(d)) \notin Word}

LabelledStarts(s) == {i \in 1..Len(s) : LabelledDatesAt(s, i) # {}}

BareStarts(s) == {i \in 1..Len(s) : BareDatesAt(s, i) # {}}

\* C20: fecha is the date that follows a date label ("fecha emisión",
\* "fecha factura", "fecha comprobante") within at most 15 non-digit
\* characters whenever there is one, also when a bare date token stands
\* earlier in the text; only without a labelled date it is the first bare
\* date token; it is empty when the text holds no stretch of the date shape,
\* and otherwise of that shape.
C20_LabelledDateFirst ==
    pc = "done" =>
        /\ LabelledStarts(text) # {} =>
              Ret.fecha = Longest(LabelledDatesAt(text, Least(LabelledStarts(text))))
        /\ (LabelledStarts(text) = {} /\ BareStarts(text) # {}) =>
              Ret.fecha \in BareDatesAt(text, Least(BareStarts(text)))
        /\ (\A i \in 1..Len(text) : DatesAt(text, i) = {}) => Ret.fecha = ""
        /\ Ret.fecha # "" => DateShaped(Ret.fecha)

\* a bare date stands on the first line, the label on the second and its
\* date on the third: the labelled date is returned
C20_Witness ==
    /\ pc = "done"
    /\ text = "Vence 3/4/25\nFecha factura\nPago 10-11-2026"
    /\ Least(BareStarts(text)) < Least(LabelledStarts(text))
    /\ BareDatesAt(text, Least(BareStarts(text))) = {"3/4/25"}
    /\ Ret.fecha = "10-11-2026"

\* the greatest number of occurrences of the word in the lower-cased text
\* that do not overlap one another
Disjoint(t, word) ==
    LET fits == {S \in SUBSET LabelOffsets(t, word) :
                    \A i, j \in S : i # j => (i - j >= Len(word) \/ j - i >= Len(word))}
    IN  Cardinality(CHOOSE S \in fits : \A T \in fits : Cardinality(S) >= Cardinality(T))

RECURSIVE KeywordOccurrences(_, _)
\* the occurrences of the keywords of the list, summed over the list
KeywordOccurrences(t, words) ==
    IF words = << >> THEN 0
    ELSE Disjoint(t, Head(words)) + KeywordOccurrences(t, Tail(words))

\* C21: simple_sentiment returns "positivo" exactly when the positive
\* keywords occur more often in the lower-cased text than the negative ones,
\* "negativo" exactly when they occur less often, and "neutral" on every tie,
\* the empty text and a text without keywords included.
C21_SentimentByCounts ==
    pc = "done" =>
        /\ Ret \in {"positivo", "negativo", "neutral"}
        /\ Ret = "positivo" <=>
              KeywordOccurrences(text, positive_words) > KeywordOccurrences(text, negative_words)
        /\ Ret = "negativo" <=>
              KeywordOccurrences(text, positive_words) < KeywordOccurrences(text, negative_words)
        /\ Ret = "neutral" <=>
              KeywordOccurrences(text, positive_words) = KeywordOccurrences(text, negative_words)

\* a tie of two against two, in mixed case
C21_Witness ==
    /\ pc = "done"
    /\ KeywordOccurrences(text, positive_words) = 2
    /\ KeywordOccurrences(text, negative_words) = 2
    /\ text # Lower(text)
    /\ Ret = "neutral"

\* the step answers a request to POST /documents/analyze
AnalyzeAnswered == http'.endpoint = "POST /documents/analyze"

\* the step adds one Document row and one DOC_ANALYSIS event that names the
\* row's file, type and object, and nothing else
BothRowsWritten ==
    /\ Len(db'.documents) = Len(db.documents) + 1
    /\ Len(db'.eventlogs) = Len(db.eventlogs) + 1
    /\ db = [db' EXCEPT !.documents = SubSeq(@, 1, Len(@) - 1),
                        !.eventlogs = SubSeq(@, 1, Len(@) - 1)]
    /\ LET document == db'.documents[Len(db'.documents)]
           event == db'.eventlogs[Len(db'.eventlogs)]
       IN  /\ event.event_type = "DOC_ANALYSIS"
           /\ Contains(event.description,
                       "Documento " \o document.filename \o " (" \o document.doc_type \o ")")
           /\ Contains(event.description, ":" \o document.s3_key \o ")")

\* the request ended before the database was reached: it was refused, or the
\* validation, the read, the upload, the extraction or the analysis failed
FailedBeforeDatabase ==
    /\ http'.status # 201
    /\ http'.body.detail # "Error al registrar el documento en la base de datos"

\* C22: a request to POST /documents/analyze writes the Document row and its
\* DOC_ANALYSIS event together or writes neither, whatever step fails; when
\* the validation, the read, the upload, the extraction or the analysis
\* fails it writes neither, and the bucket holds at most the object uploaded
\* before the failure.
C22_DocumentAndEventTogether ==
    [][AnalyzeAnswered =>
          /\ BothRowsWritten \/ db' = db
          /\ FailedBeforeDatabase => db' = db
          /\ http'.status = 201 => BothRowsWritten
          /\ \/ storage' = storage
             \/ Len(storage') = Len(storage) + 1 /\ SubSeq(storage', 1, Len(storage)) = storage]_vars

\* the analysis failed after the upload: the object is in the bucket and no
\* row was written
C22_Witness ==
    /\ http # NoExchange
    /\ http.endpoint = "POST /documents/analyze"
    /\ http.status = 500
    /\ http.body.detail = "Error en el análisis de IA del documento"
    /\ Len(storage) = 1
    /\ db = EmptyDb

\* the request just answered was to POST /documents/analyze and its rows
\* were committed: it was answered 201, or 500 for the refresh that failed
\* after the commit
AnalysisCommitted ==
    /\ http # NoExchange
    /\ http.endpoint = "POST /documents/analyze"
    /\ \/ http.status = 201
       \/ /\ http.status = 500
          /\ http.body.detail = "Error al registrar el documento en la base de datos"
          /\ http.env.commit_ok

\* extracted holds the form's description under "description", the whole
\* extracted text under "text", and every other key of the analysis with the
\* value the analysis gave it
FormOverAnalysis(extracted, core, extracted_text) ==
    /\ DOMAIN extracted = DOMAIN core \cup {"description", "text"}
    /\ extracted["description"] = http.form.description
    /\ extracted["text"] = extracted_text
    /\ \A k \in DOMAIN core \ {"description", "text"} : extracted[k] = core[k]

\* C23: in the row and in the response of POST /documents/analyze the key
\* "description" holds the description of the request's form, also where the
\* analysis of an "informacion" document computed one; "text" holds the
\* whole extracted text; every other key of the analysis is kept as it is.
C23_FormDescriptionReplaces ==
    AnalysisCommitted =>
        LET extracted_text == extract_text_from_document(http.env.ocr, http.form.file.filename)
            core == analyze_document(extracted_text)
            row == db.documents[Len(db.documents)]
        IN  /\ FormOverAnalysis(row.extracted_data, core, extracted_text)
            /\ http.status = 201 =>
                  /\ http.body.document_id = row.id
                  /\ http.body.extracted = row.extracted_data

\* an "informacion" document posted without a description: the description
\* the analysis computed is replaced by the empty default
C23_Witness ==
    /\ http # NoExchange
    /\ http.endpoint = "POST /documents/analyze"
    /\ http.status = 201
    /\ http.form.description = ""
    /\ http.body.doc_type = "informacion"
    /\ analyze_document(http.env.ocr).description # ""
    /\ http.body.extracted.description = ""
    /\ http.body.extracted.summary = analyze_document(http.env.ocr).summary
    /\ http.body.extracted.text = http.env.ocr

====
